---- MODULE Spec2Model ----
(***************************************************************************)
(* A model of the Rubik's cube engine (src/src/cube) and of the two-phase  *)
(* IDA* solver (src/src/solver).  The cube is the pair of arrays           *)
(* Cube.edges / Cube.corners, indexed from 0 as in the source.             *)
(***************************************************************************)
EXTENDS Integers, Sequences, FiniteSets, TLC

VARIABLES cube, count, prev_turn, pc, bound, solution, alg, start, alg1,
          permutation, options, encoded_perms, text, twists, const_twists,
          simplified, once, files, threads

vars == <<cube, count, prev_turn, pc, bound, solution, alg, start, alg1,
          permutation, options, encoded_perms, text, twists, const_twists,
          simplified, once, files, threads>>

\* the two OnceLock statics of solver/mod.rs, the two table files and the
\* threads that call the getters
lock_vars == <<once, files, threads>>

\* the variables of the specifications of the pure functions of algs.rs and
\* of encode_permutation, which the cube and the solver never touch
fn_vars == <<permutation, options, encoded_perms, text, twists, const_twists,
             simplified, lock_vars>>

(***************************************************************************)
(* Bounds of the model.                                                    *)
(***************************************************************************)
\* longest sequence of twists applied by the engine specification CubeSpec
MaxTwists == 3

\* longest scramble handed to solver (Spec) and longest sequence of G1
\* moves handed to phase 2 alone (G1Spec)
MaxScramble == 2

\* the orientation table is built up to this breadth-first depth, the
\* corner-permutation table up to this iterative-deepening depth
MaxOrientDepth == 3

MaxPermDepth == 4

\* group_solver's loop is followed while bound is at most this
MaxBound == 6

\* depth of the search for a G1-move sequence from a cube outside G1
MaxG1Search == 2

\* longest algorithm built by Algorithm::new_random (RandomSpec)
MaxRandomLen == 3

\* longest sequence of G1 moves applied to the solved cube (PermSpec)
MaxPermMoves == 3

\* longest algorithm formatted and parsed (FormatSpec)
MaxAlgLen == 3

\* number of times in a row a named algorithm is applied (ScenarioSpec)
MaxApplications == 2

\* threads that call the table getters
MaxThreads == 2

\* longest sequence of moves compared with the sequences the filter of
\* allowed_moves_from_moveset admits (PathSpec)
MaxPathLen == 3

\* longest text handed to Algorithm::from_str character by character
\* (ParseSpec)
MaxTextLen == 4

\* longest sequence of twists to the cubes every cube reached is compared
\* with, coordinate against coordinate
MaxPairDepth == 2

\* longest algorithm handed to Algorithm::simplify (SimplifySpec)
MaxSimplifyLen == 4

(***************************************************************************)
(* cubie.rs: the enums, by discriminant.                                   *)
(***************************************************************************)
EdgeId == [WB |-> 0, WR |-> 1, WG |-> 2, WO |-> 3, BO |-> 4, BR |-> 5,
           GR |-> 6, GO |-> 7, YG |-> 8, YR |-> 9, YB |-> 10, YO |-> 11]

EdgePos == [UB |-> 0, UR |-> 1, UF |-> 2, UL |-> 3, BL |-> 4, BR |-> 5,
            FR |-> 6, FL |-> 7, DF |-> 8, DR |-> 9, DB |-> 10, DL |-> 11]

CornerPos == [UBL |-> 0, UBR |-> 1, UFR |-> 2, UFL |-> 3,
              DFL |-> 4, DFR |-> 5, DBR |-> 6, DBL |-> 7]

CornerId == [WBO |-> 0, WBR |-> 1, WGR |-> 2, WGO |-> 3,
             YGO |-> 4, YGR |-> 5, YBR |-> 6, YBO |-> 7]

\* CornerOrientation::{Zero, One, Two} as their discriminants 0, 1, 2
CornerOrientation == {0, 1, 2}

Edge(id, flipped) == [id |-> id, flipped |-> flipped]

Corner(id, orientation) == [id |-> id, orientation |-> orientation]

\* Edge::flip
flip(e) == [e EXCEPT !.flipped = ~e.flipped]

\* Corner::twist_clockwise
twist_clockwise(c) ==
    [c EXCEPT !.orientation = CASE c.orientation = 0 -> 1
                                [] c.orientation = 1 -> 2
                                [] c.orientation = 2 -> 0]

\* Corner::twist_counterclockwise
twist_counterclockwise(c) ==
    [c EXCEPT !.orientation = CASE c.orientation = 0 -> 2
                                [] c.orientation = 1 -> 0
                                [] c.orientation = 2 -> 1]

(***************************************************************************)
(* The move vocabulary.                                                    *)
(***************************************************************************)
Turn == {"U", "L", "F", "R", "B", "D"}

TurnDir == {"None", "One", "Two", "Prime"}

Twist(turn, dir) == [turn |-> turn, dir |-> dir]

\* TurnDir::as_u8
as_u8(d) ==
    CASE d = "None"  -> 0
      [] d = "One"   -> 1
      [] d = "Two"   -> 2
      [] d = "Prime" -> 3

\* a faulty from_u8: the value is not reduced modulo 4
from_u8_no_wrap(v) ==
    CASE v = 0 -> "None"
      [] v = 1 -> "One"
      [] v = 2 -> "Two"
      [] OTHER -> "Prime"

\* TurnDir::from_u8
from_u8(v) ==
    CASE v % 4 = 0 -> "None"
      [] v % 4 = 1 -> "One"
      [] v % 4 = 2 -> "Two"
      [] OTHER     -> "Prime"

\* impl Add for TurnDir; the u8 sum is at most 3 + 3
add(a, b) == from_u8(as_u8(a) + as_u8(b))

\* a faulty inverse: the InverseQuarter arm returns the twist itself
inverse_keeps_prime(t) ==
    CASE t.dir = "None"  -> Twist(t.turn, "None")
      [] t.dir = "One"   -> Twist(t.turn, "Prime")
      [] t.dir = "Two"   -> Twist(t.turn, "Two")
      [] t.dir = "Prime" -> Twist(t.turn, "Prime")

\* Twist::inverse
inverse(t) ==
    CASE t.dir = "None"  -> Twist(t.turn, "None")
      [] t.dir = "One"   -> Twist(t.turn, "Prime")
      [] t.dir = "Two"   -> Twist(t.turn, "Two")
      [] t.dir = "Prime" -> Twist(t.turn, "One")

\* Twist::ALL_MOVES, in the order of the array
ALL_MOVES ==
    << Twist("U", "One"), Twist("U", "Two"), Twist("U", "Prime"),
       Twist("D", "One"), Twist("D", "Two"), Twist("D", "Prime"),
       Twist("F", "One"), Twist("F", "Two"), Twist("F", "Prime"),
       Twist("B", "One"), Twist("B", "Two"), Twist("B", "Prime"),
       Twist("L", "One"), Twist("L", "Two"), Twist("L", "Prime"),
       Twist("R", "One"), Twist("R", "Two"), Twist("R", "Prime") >>

\* every value of the type Twist: 6 faces and 4 directions
AnyTwist == {Twist(f, d) : f \in Turn, d \in TurnDir}

\* a faulty filter: the opposite face is excluded after every face, so that
\* neither order of two twists of opposite faces passes
allowed_never_opposite(m, prev) ==
    CASE prev = "NoTurn" -> TRUE
      [] prev \in {"U", "D"} -> m.turn # "U" /\ m.turn # "D"
      [] prev \in {"L", "R"} -> m.turn # "L" /\ m.turn # "R"
      [] prev \in {"F", "B"} -> m.turn # "F" /\ m.turn # "B"

\* a faulty filter: only the face of the previous twist is excluded
allowed_not_same_face(m, prev) == prev = "NoTurn" \/ m.turn # prev

\* the filter of Twist::allowed_moves_from_moveset on one move m; prev is a
\* face or "NoTurn" for Option::None
allowed(m, prev) ==
    CASE prev = "NoTurn" -> TRUE
      [] prev \in {"U", "R", "F"} -> m.turn # prev
      [] prev = "L" -> m.turn # "L" /\ m.turn # "R"
      [] prev = "B" -> m.turn # "B" /\ m.turn # "F"
      [] prev = "D" -> m.turn # "D" /\ m.turn # "U"

\* Twist::allowed_moves_from_moveset: the moves of the moveset that pass the
\* filter, in the order of the moveset
allowed_moves_from_moveset(moveset, prev) ==
    SelectSeq(moveset, LAMBDA m : allowed(m, prev))

\* Twist::ALL_TWISTS of algs.rs, in the order of the array
ALL_TWISTS ==
    << Twist("U", "One"), Twist("U", "Two"), Twist("U", "Prime"),
       Twist("D", "One"), Twist("D", "Two"), Twist("D", "Prime"),
       Twist("F", "One"), Twist("F", "Two"), Twist("F", "Prime"),
       Twist("B", "One"), Twist("B", "Two"), Twist("B", "Prime"),
       Twist("L", "One"), Twist("L", "Two"), Twist("L", "Prime"),
       Twist("R", "One"), Twist("R", "Two"), Twist("R", "Prime") >>

\* Twist::allowed_moves of algs.rs
allowed_moves(prev) == allowed_moves_from_moveset(ALL_TWISTS, prev)

(***************************************************************************)
(* algs.rs: text.  A string is the sequence of its bytes; every character  *)
(* the formatter writes and the parsers tell apart is ASCII.               *)
(***************************************************************************)
CH == [U |-> 85, D |-> 68, F |-> 70, B |-> 66, L |-> 76, R |-> 82,
       zero |-> 48, one |-> 49, two |-> 50, three |-> 51,
       quote |-> 39, space |-> 32, tab |-> 9, lf |-> 10, vt |-> 11,
       ff |-> 12, cr |-> 13]

\* Turn::from_char; "NoTurn" is Option::None
turn_from_char(c) ==
    CASE c = CH.U -> "U"
      [] c = CH.D -> "D"
      [] c = CH.F -> "F"
      [] c = CH.B -> "B"
      [] c = CH.L -> "L"
      [] c = CH.R -> "R"
      [] OTHER -> "NoTurn"

\* Display for Turn
turn_fmt(t) ==
    CASE t = "U" -> <<CH.U>>
      [] t = "D" -> <<CH.D>>
      [] t = "F" -> <<CH.F>>
      [] t = "B" -> <<CH.B>>
      [] t = "L" -> <<CH.L>>
      [] t = "R" -> <<CH.R>>

\* TurnDir::from_char; "NoDir" is Option::None
dir_from_char(c) ==
    CASE c = CH.zero -> "None"
      [] c = CH.space \/ c = CH.one -> "One"
      [] c = CH.two -> "Two"
      [] c = CH.quote \/ c = CH.three -> "Prime"
      [] OTHER -> "NoDir"

\* Display for TurnDir
dir_fmt(d) ==
    CASE d = "None" -> <<CH.zero>>
      [] d = "One" -> << >>
      [] d = "Two" -> <<CH.two>>
      [] d = "Prime" -> <<CH.quote>>

\* Display for Twist: "{}{}" of the turn and the direction
twist_fmt(tw) == turn_fmt(tw.turn) \o dir_fmt(tw.dir)

\* Display for Algorithm: "{} " for each twist in order
RECURSIVE algorithm_fmt(_)
algorithm_fmt(a) ==
    IF a = << >> THEN << >>
    ELSE twist_fmt(Head(a)) \o <<CH.space>> \o algorithm_fmt(Tail(a))

\* char::is_whitespace on an ASCII character
is_whitespace(c) == c \in {CH.space, CH.tab, CH.lf, CH.vt, CH.ff, CH.cr}

\* a faulty loop body of Algorithm::from_str: a direction character is
\* ignored once the last twist has a direction other than One
algorithm_from_str_char_keeps_first(tws, c) ==
    IF is_whitespace(c) THEN tws
    ELSE IF turn_from_char(c) # "NoTurn"
         THEN Append(tws, Twist(turn_from_char(c), "One"))
         ELSE IF dir_from_char(c) # "NoDir" /\ tws # << >> /\ tws[Len(tws)].dir = "One"
              THEN [tws EXCEPT ![Len(tws)].dir = dir_from_char(c)]
              ELSE tws

\* a faulty loop body of Algorithm::from_str: whitespace is not skipped
algorithm_from_str_char_no_skip(tws, c) ==
    IF turn_from_char(c) # "NoTurn"
    THEN Append(tws, Twist(turn_from_char(c), "One"))
    ELSE IF dir_from_char(c) # "NoDir" /\ tws # << >>
         THEN [tws EXCEPT ![Len(tws)].dir = dir_from_char(c)]
         ELSE tws

\* the body of the for loop of Algorithm::from_str for the character c; tws
\* is the vector twists
algorithm_from_str_char(tws, c) ==
    IF is_whitespace(c) THEN tws
    ELSE IF turn_from_char(c) # "NoTurn"
         THEN Append(tws, Twist(turn_from_char(c), "One"))
         ELSE IF dir_from_char(c) # "NoDir" /\ tws # << >>
              THEN [tws EXCEPT ![Len(tws)].dir = dir_from_char(c)]
              ELSE tws

\* the for loop of Algorithm::from_str from the i-th character of str on
RECURSIVE algorithm_from_str_loop(_, _, _)
algorithm_from_str_loop(tws, str, i) ==
    IF i > Len(str) THEN tws
    ELSE algorithm_from_str_loop(algorithm_from_str_char(tws, str[i]), str, i + 1)

\* Algorithm::from_str
algorithm_from_str(str) == algorithm_from_str_loop(<< >>, str, 1)

\* Twist::const_default
const_default == Twist("U", "None")

\* a faulty loop body of ConstAlgorithm::from_str: the test c != ' ' is left out
const_from_str_char_no_skip(st, c, n) ==
    IF st.panicked THEN st
    ELSE IF turn_from_char(c) # "NoTurn"
         THEN IF st.len >= n
              THEN [st EXCEPT !.panicked = TRUE]
              ELSE [st EXCEPT !.twists[st.len] = Twist(turn_from_char(c), "One"),
                              !.len = st.len + 1]
         ELSE IF dir_from_char(c) # "NoDir" /\ st.len > 0
              THEN [st EXCEPT !.twists[st.len - 1].dir = dir_from_char(c)]
              ELSE st

\* the body of the while loop of ConstAlgorithm::<n>::from_str for the
\* character c; st is [twists, len, panicked]: the array twists indexed from
\* 0, the local len, and whether an index out of the array has ended the
\* evaluation
const_from_str_char(st, c, n) ==
    IF st.panicked \/ c = CH.space THEN st
    ELSE IF turn_from_char(c) # "NoTurn"
         THEN IF st.len >= n
              THEN [st EXCEPT !.panicked = TRUE]
              ELSE [st EXCEPT !.twists[st.len] = Twist(turn_from_char(c), "One"),
                              !.len = st.len + 1]
         ELSE IF dir_from_char(c) # "NoDir" /\ st.len > 0
              THEN [st EXCEPT !.twists[st.len - 1].dir = dir_from_char(c)]
              ELSE st

\* the while loop of ConstAlgorithm::<n>::from_str from the byte i on (bytes
\* are indexed from 0 in the source, from 1 here)
RECURSIVE const_from_str_loop(_, _, _, _)
const_from_str_loop(st, str, i, n) ==
    IF i > Len(str) THEN st
    ELSE const_from_str_loop(const_from_str_char(st, str[i], n), str, i + 1, n)

\* a faulty ConstAlgorithm::<n>::from_str: assert!(len == N) is left out
const_algorithm_from_str_no_assert(str, n) ==
    LET st == const_from_str_loop([twists |-> [k \in 0..(n - 1) |-> const_default],
                                   len |-> 0, panicked |-> FALSE], str, 1, n)
    IN  [twists |-> st.twists, panicked |-> st.panicked]

\* ConstAlgorithm::<n>::from_str: the array twists, and panicked when an
\* index left the array or assert!(len == N) failed
const_algorithm_from_str(str, n) ==
    LET st == const_from_str_loop([twists |-> [k \in 0..(n - 1) |-> const_default],
                                   len |-> 0, panicked |-> FALSE], str, 1, n)
    IN  [twists |-> st.twists, panicked |-> st.panicked \/ st.len # n]

\* ConstAlgorithm::to_algorithm: the array as a vector
to_algorithm(c) == [k \in 1..Cardinality(DOMAIN c.twists) |-> c.twists[k - 1]]

(***************************************************************************)
(* algs.rs: the algorithms ConstAlgorithm names, each parsed from its      *)
(* string literal with the declared length.                                *)
(***************************************************************************)
\* the bytes of "U R2 F B R B2 R U2 L B2 R U' D' R2 F R' L B2 U2 F2"
SUPERFLIP_STR ==
    <<CH.U, CH.space, CH.R, CH.two, CH.space, CH.F, CH.space, CH.B,
      CH.space, CH.R, CH.space, CH.B, CH.two, CH.space, CH.R, CH.space,
      CH.U, CH.two, CH.space, CH.L, CH.space, CH.B, CH.two, CH.space, CH.R,
      CH.space, CH.U, CH.quote, CH.space, CH.D, CH.quote, CH.space, CH.R,
      CH.two, CH.space, CH.F, CH.space, CH.R, CH.quote, CH.space, CH.L,
      CH.space, CH.B, CH.two, CH.space, CH.U, CH.two, CH.space, CH.F,
      CH.two>>

\* the bytes of "R U R' F' R U R' U' R' F R2 U' R' U'"
J_PERM_STR ==
    <<CH.R, CH.space, CH.U, CH.space, CH.R, CH.quote, CH.space, CH.F,
      CH.quote, CH.space, CH.R, CH.space, CH.U, CH.space, CH.R, CH.quote,
      CH.space, CH.U, CH.quote, CH.space, CH.R, CH.quote, CH.space, CH.F,
      CH.space, CH.R, CH.two, CH.space, CH.U, CH.quote, CH.space, CH.R,
      CH.quote, CH.space, CH.U, CH.quote>>

\* the bytes of "R U R' U' R' F R2 U' R' U' R U R' F'"
T_PERM_STR ==
    <<CH.R, CH.space, CH.U, CH.space, CH.R, CH.quote, CH.space, CH.U,
      CH.quote, CH.space, CH.R, CH.quote, CH.space, CH.F, CH.space, CH.R,
      CH.two, CH.space, CH.U, CH.quote, CH.space, CH.R, CH.quote, CH.space,
      CH.U, CH.quote, CH.space, CH.R, CH.space, CH.U, CH.space, CH.R,
      CH.quote, CH.space, CH.F, CH.quote>>

\* the bytes of "R U' R U R U R U' R' U' R2"
UA_PERM_STR ==
    <<CH.R, CH.space, CH.U, CH.quote, CH.space, CH.R, CH.space, CH.U,
      CH.space, CH.R, CH.space, CH.U, CH.space, CH.R, CH.space, CH.U,
      CH.quote, CH.space, CH.R, CH.quote, CH.space, CH.U, CH.quote,
      CH.space, CH.R, CH.two>>

SUPERFLIP == const_algorithm_from_str(SUPERFLIP_STR, 20)

J_PERM == const_algorithm_from_str(J_PERM_STR, 14)

T_PERM == const_algorithm_from_str(T_PERM_STR, 14)

UA_PERM == const_algorithm_from_str(UA_PERM_STR, 11)

\* the four constants, in the order of their declaration
CONST_ALGORITHMS == <<SUPERFLIP, J_PERM, T_PERM, UA_PERM>>

(***************************************************************************)
(* algs.rs: Algorithm::simplify.                                           *)
(***************************************************************************)
\* a faulty is_opposite: every other face counts as the opposite one
is_opposite_any_other_face(a, b) == a # b

\* Turn::is_opposite
is_opposite(a, b) ==
    <<a, b>> \in {<<"U", "D">>, <<"D", "U">>, <<"L", "R">>, <<"R", "L">>,
                  <<"F", "B">>, <<"B", "F">>}

\* Twist::try_add; the Option is << >> for None and <<twist>> for Some(twist)
try_add(a, b) ==
    IF a.turn # b.turn THEN << >>
    ELSE << Twist(a.turn, add(a.dir, b.dir)) >>

\* Vec::remove(i), i counted from 0
vec_remove(v, i) == SubSeq(v, 1, i) \o SubSeq(v, i + 2, Len(v))

\* a faulty loop body of simplify: a sum of direction None is written over
\* the last twist instead of popping it
simplify_twist_keeps_none(simp, tw) ==
    IF tw.dir = "None" THEN simp
    ELSE IF simp = << >> THEN Append(simp, tw)
    ELSE LET len == Len(simp)
             last == simp[len]
         IN  IF try_add(last, tw) # << >>
             THEN [simp EXCEPT ![len] = try_add(last, tw)[1]]
             ELSE IF /\ len >= 2
                     /\ is_opposite(simp[len - 1].turn, last.turn)
                     /\ try_add(simp[len - 1], tw) # << >>
                  THEN IF try_add(simp[len - 1], tw)[1].dir = "None"
                       THEN vec_remove(simp, len - 2)
                       ELSE [simp EXCEPT ![len - 1] = try_add(simp[len - 1], tw)[1]]
                  ELSE Append(simp, tw)

\* a faulty loop body of simplify: the twist is merged into the second-last
\* twist whether or not the last two faces are opposite
simplify_twist_any_face(simp, tw) ==
    IF tw.dir = "None" THEN simp
    ELSE IF simp = << >> THEN Append(simp, tw)
    ELSE LET len == Len(simp)
             last == simp[len]
         IN  IF try_add(last, tw) # << >>
             THEN IF try_add(last, tw)[1].dir = "None"
                  THEN SubSeq(simp, 1, len - 1)
                  ELSE [simp EXCEPT ![len] = try_add(last, tw)[1]]
             ELSE IF /\ len >= 2
                     /\ try_add(simp[len - 1], tw) # << >>
                  THEN IF try_add(simp[len - 1], tw)[1].dir = "None"
                       THEN vec_remove(simp, len - 2)
                       ELSE [simp EXCEPT ![len - 1] = try_add(simp[len - 1], tw)[1]]
                  ELSE Append(simp, tw)

\* a faulty loop body of simplify: a twist is merged into the last twist only
simplify_twist_last_only(simp, tw) ==
    IF tw.dir = "None" THEN simp
    ELSE IF simp = << >> THEN Append(simp, tw)
    ELSE LET len == Len(simp)
             last == simp[len]
         IN  IF try_add(last, tw) # << >>
             THEN IF try_add(last, tw)[1].dir = "None"
                  THEN SubSeq(simp, 1, len - 1)
                  ELSE [simp EXCEPT ![len] = try_add(last, tw)[1]]
             ELSE Append(simp, tw)

\* the body of the for loop of simplify for the twist tw; simp is the vector
\* simplified (indexed from 1 here: last is simp[len], second_last
\* simp[len - 1])
simplify_twist(simp, tw) ==
    IF tw.dir = "None" THEN simp
    ELSE IF simp = << >> THEN Append(simp, tw)
    ELSE LET len == Len(simp)
             last == simp[len]
         IN  IF try_add(last, tw) # << >>
             THEN IF try_add(last, tw)[1].dir = "None"
                  THEN SubSeq(simp, 1, len - 1)
                  ELSE [simp EXCEPT ![len] = try_add(last, tw)[1]]
             ELSE IF /\ len >= 2
                     /\ is_opposite(simp[len - 1].turn, last.turn)
                     /\ try_add(simp[len - 1], tw) # << >>
                  THEN IF try_add(simp[len - 1], tw)[1].dir = "None"
                       THEN vec_remove(simp, len - 2)
                       ELSE [simp EXCEPT ![len - 1] = try_add(simp[len - 1], tw)[1]]
                  ELSE Append(simp, tw)

\* the for loop of simplify from the i-th twist of tws on
RECURSIVE simplify_loop(_, _, _)
simplify_loop(simp, tws, i) ==
    IF i > Len(tws) THEN simp
    ELSE simplify_loop(simplify_twist(simp, tws[i]), tws, i + 1)

\* Algorithm::simplify: the vector that self.twists is set to
simplify(tws) == simplify_loop(<< >>, tws, 1)

(***************************************************************************)
(* Cube.                                                                   *)
(***************************************************************************)
\* the one element of a singleton.  Only({e(x) : x \in {d}}) is e with x
\* standing for the value of d, which is computed once.
Only(S) == CHOOSE r \in S : TRUE

SOLVED_EDGES == [i \in 0..11 |-> Edge(i, FALSE)]

SOLVED_CORNERS == [i \in 0..7 |-> Corner(i, 0)]

new_solved == [edges |-> SOLVED_EDGES, corners |-> SOLVED_CORNERS]

is_solved(c) == c.edges = SOLVED_EDGES /\ c.corners = SOLVED_CORNERS

swap_edges(c, a, b) ==
    [c EXCEPT !.edges = [c.edges EXCEPT ![a] = c.edges[b], ![b] = c.edges[a]]]

swap_corners(c, a, b) ==
    [c EXCEPT !.corners = [c.corners EXCEPT ![a] = c.corners[b], ![b] = c.corners[a]]]

swap_opposite_edges(c, a, b, cc, d) ==
    Only({ swap_edges(c1, b, d) : c1 \in {swap_edges(c, a, cc)} })

\* a faulty half turn of the corner ring: the second pair is not swapped
swap_opposite_corners_one_pair(c, a, b, cc, d) == swap_corners(c, a, cc)

swap_opposite_corners(c, a, b, cc, d) ==
    Only({ swap_corners(c1, b, d) : c1 \in {swap_corners(c, a, cc)} })

\* a faulty cycle: slot a is filled from slot d after d was overwritten (no tmp)
cycle_edges_right_no_tmp(c, a, b, cc, d) ==
    [c EXCEPT !.edges = [c.edges EXCEPT ![d] = c.edges[cc], ![cc] = c.edges[b],
                                        ![b] = c.edges[a], ![a] = c.edges[cc]]]

\* cycles a -> b -> c -> d -> a
cycle_edges_right(c, a, b, cc, d) ==
    [c EXCEPT !.edges = [c.edges EXCEPT ![d] = c.edges[cc], ![cc] = c.edges[b],
                                        ![b] = c.edges[a], ![a] = c.edges[d]]]

cycle_corners_right(c, a, b, cc, d) ==
    [c EXCEPT !.corners = [c.corners EXCEPT ![d] = c.corners[cc], ![cc] = c.corners[b],
                                            ![b] = c.corners[a], ![a] = c.corners[d]]]

\* cycles a -> d -> c -> b -> a
cycle_edges_left(c, a, b, cc, d) ==
    [c EXCEPT !.edges = [c.edges EXCEPT ![a] = c.edges[b], ![b] = c.edges[cc],
                                        ![cc] = c.edges[d], ![d] = c.edges[a]]]

cycle_corners_left(c, a, b, cc, d) ==
    [c EXCEPT !.corners = [c.corners EXCEPT ![a] = c.corners[b], ![b] = c.corners[cc],
                                            ![cc] = c.corners[d], ![d] = c.corners[a]]]

\* a faulty flip: the fourth edge of the ring is left alone
flip_edges_three(c, a, b, cc, d) ==
    [c EXCEPT !.edges = [c.edges EXCEPT ![a] = flip(c.edges[a]), ![b] = flip(c.edges[b]),
                                        ![cc] = flip(c.edges[cc])]]

flip_edges(c, a, b, cc, d) ==
    [c EXCEPT !.edges = [c.edges EXCEPT ![a] = flip(c.edges[a]), ![b] = flip(c.edges[b]),
                                        ![cc] = flip(c.edges[cc]), ![d] = flip(c.edges[d])]]

\* a faulty correction: all four corners are twisted clockwise
corner_correction_all_clockwise(c, a, b, cc, d) ==
    [c EXCEPT !.corners = [c.corners EXCEPT ![a] = twist_clockwise(c.corners[a]),
                                            ![b] = twist_clockwise(c.corners[b]),
                                            ![cc] = twist_clockwise(c.corners[cc]),
                                            ![d] = twist_clockwise(c.corners[d])]]

corner_correction(c, a, b, cc, d) ==
    [c EXCEPT !.corners = [c.corners EXCEPT ![a] = twist_counterclockwise(c.corners[a]),
                                            ![b] = twist_clockwise(c.corners[b]),
                                            ![cc] = twist_counterclockwise(c.corners[cc]),
                                            ![d] = twist_clockwise(c.corners[d])]]

\* the function pointer cycle_edges chosen by the match on twist.dir
cycle_edges(dir, c, a, b, cc, d) ==
    CASE dir = "One"   -> cycle_edges_right(c, a, b, cc, d)
      [] dir = "Two"   -> swap_opposite_edges(c, a, b, cc, d)
      [] dir = "Prime" -> cycle_edges_left(c, a, b, cc, d)

\* the function pointer cycle_corners chosen by the match on twist.dir
cycle_corners(dir, c, a, b, cc, d) ==
    CASE dir = "One"   -> cycle_corners_right(c, a, b, cc, d)
      [] dir = "Two"   -> swap_opposite_corners(c, a, b, cc, d)
      [] dir = "Prime" -> cycle_corners_left(c, a, b, cc, d)

should_correct_orientation(dir) == dir \in {"One", "Prime"}

\* the two statements cycle_edges(self, ..); cycle_corners(self, ..); of an
\* arm of Cube::twist: e and k are the edge ring and the corner ring
cycle_rings(dir, c, e, k) ==
    Only({ cycle_corners(dir, c1, k[1], k[2], k[3], k[4])
           : c1 \in {cycle_edges(dir, c, e[1], e[2], e[3], e[4])} })

\* the statements flip_edges(..); corner_correction(..); of the arms F and B
flip_and_correct(c, e, k) ==
    Only({ corner_correction(c1, k[1], k[2], k[3], k[4])
           : c1 \in {flip_edges(c, e[1], e[2], e[3], e[4])} })

\* Cube::twist
twist(c, t) ==
    LET E == EdgePos
        C == CornerPos
        d == t.dir
    IN  IF d = "None" THEN c
        ELSE CASE t.turn = "U" ->
                    cycle_rings(d, c, <<E.UB, E.UR, E.UF, E.UL>>,
                                <<C.UBL, C.UBR, C.UFR, C.UFL>>)
               [] t.turn = "D" ->
                    cycle_rings(d, c, <<E.DF, E.DR, E.DB, E.DL>>,
                                <<C.DFL, C.DFR, C.DBR, C.DBL>>)
               [] t.turn = "F" ->
                    Only({ IF should_correct_orientation(d)
                           THEN flip_and_correct(c1, <<E.UF, E.FR, E.DF, E.FL>>,
                                                 <<C.UFL, C.UFR, C.DFR, C.DFL>>)
                           ELSE c1
                           : c1 \in {cycle_rings(d, c, <<E.UF, E.FR, E.DF, E.FL>>,
                                                 <<C.UFL, C.UFR, C.DFR, C.DFL>>)} })
               [] t.turn = "B" ->
                    Only({ IF should_correct_orientation(d)
                           THEN flip_and_correct(c1, <<E.UB, E.BL, E.DB, E.BR>>,
                                                 <<C.UBR, C.UBL, C.DBL, C.DBR>>)
                           ELSE c1
                           : c1 \in {cycle_rings(d, c, <<E.UB, E.BL, E.DB, E.BR>>,
                                                 <<C.UBL, C.DBL, C.DBR, C.UBR>>)} })
               [] t.turn = "L" ->
                    Only({ IF should_correct_orientation(d)
                           THEN corner_correction(c1, C.UBL, C.UFL, C.DFL, C.DBL)
                           ELSE c1
                           : c1 \in {cycle_rings(d, c, <<E.UL, E.FL, E.DL, E.BL>>,
                                                 <<C.UBL, C.UFL, C.DFL, C.DBL>>)} })
               [] t.turn = "R" ->
                    Only({ IF should_correct_orientation(d)
                           THEN corner_correction(c1, C.UFR, C.UBR, C.DBR, C.DFR)
                           ELSE c1
                           : c1 \in {cycle_rings(d, c, <<E.UR, E.BR, E.DR, E.FR>>,
                                                 <<C.UFR, C.UBR, C.DBR, C.DFR>>)} })

(***************************************************************************)
(* Coordinates.                                                            *)
(***************************************************************************)
\* the fold of get_orientation over corners.iter().skip(1).enumerate()
RECURSIVE corner_orient(_, _)
corner_orient(corners, i) ==
    IF i > 6 THEN 0
    ELSE corners[i + 1].orientation * 3^i + corner_orient(corners, i + 1)

\* the fold of get_orientation over edges.iter().skip(1).enumerate()
RECURSIVE edge_orient(_, _)
edge_orient(edges, i) ==
    IF i > 10 THEN 0
    ELSE (IF edges[i + 1].flipped THEN 1 ELSE 0) * 2^i + edge_orient(edges, i + 1)

\* a faulty coordinate: the edge part is added without its scale 3^7, so it
\* overlaps the corner part
get_orientation_unscaled_edges(c) == corner_orient(c.corners, 0) + edge_orient(c.edges, 0)

\* Cube::get_orientation
get_orientation(c) == corner_orient(c.corners, 0) + edge_orient(c.edges, 0) * 3^7

(***************************************************************************)
(* Lookup tables.  A table is a Vec<u8> created full of the sentinel       *)
(* u8::MAX; it is held here as the function of the entries written so far, *)
(* every other index reading as the sentinel.                              *)
(***************************************************************************)
U8_MAX == 255

table_get(table, i) == IF i \in DOMAIN table THEN table[i] ELSE U8_MAX

table_set(table, i, v) == (i :> v) @@ table

\* the body of `for twist in Twist::ALL_MOVES` of
\* compute_orientation_lookup_table, from the i-th twist on, for the dequeued
\* (c, depth); st is [table, queue]
RECURSIVE orientation_visit(_, _, _, _)
\* a faulty loop body: the entry is written but the cube is not pushed on the
\* queue
orientation_visit_no_push(st, c, depth, i) ==
    IF i > Len(ALL_MOVES) THEN st
    ELSE LET c1 == twist(c, ALL_MOVES[i])
             orient == get_orientation(c1)
             c2 == twist(c1, inverse(ALL_MOVES[i]))
         IN  IF table_get(st.table, orient) = U8_MAX
             THEN orientation_visit([table |-> table_set(st.table, orient, depth),
                                     queue |-> st.queue],
                                    c2, depth, i + 1)
             ELSE orientation_visit(st, c2, depth, i + 1)

\* a faulty loop body: an entry that is already written is written again
\* with the depth of the later visit
orientation_visit_overwrite(st, c, depth, i) ==
    IF i > Len(ALL_MOVES) THEN st
    ELSE LET c1 == twist(c, ALL_MOVES[i])
             orient == get_orientation(c1)
             c2 == twist(c1, inverse(ALL_MOVES[i]))
         IN  IF table_get(st.table, orient) = U8_MAX
             THEN orientation_visit([table |-> table_set(st.table, orient, depth),
                                     queue |-> Append(st.queue, <<c1, depth + 1>>)],
                                    c2, depth, i + 1)
             ELSE orientation_visit([table |-> table_set(st.table, orient, depth),
                                     queue |-> st.queue],
                                    c2, depth, i + 1)

orientation_visit(st, c, depth, i) ==
    IF i > Len(ALL_MOVES) THEN st
    ELSE LET c1 == twist(c, ALL_MOVES[i])
             orient == get_orientation(c1)
             c2 == twist(c1, inverse(ALL_MOVES[i]))
         IN  IF table_get(st.table, orient) = U8_MAX
             THEN orientation_visit([table |-> table_set(st.table, orient, depth),
                                     queue |-> Append(st.queue, <<c1, depth + 1>>)],
                                    c2, depth, i + 1)
             ELSE orientation_visit(st, c2, depth, i + 1)

\* the iterations of `while let Some(..) = dequeue.pop_front()` that take the
\* entries lo..hi of the queue, in order
RECURSIVE orientation_pops(_, _, _)
orientation_pops(st, lo, hi) ==
    IF lo > hi \/ lo > Len(st.queue) THEN st
    ELSE IF lo = hi
         THEN orientation_visit(st, st.queue[lo][1], st.queue[lo][2], 1)
         ELSE LET mid == (lo + hi) \div 2
              IN  orientation_pops(orientation_pops(st, lo, mid), mid + 1, hi)

\* the breadth-first loop, one depth at a time: the queue holds the entries
\* of one depth; they are popped and their children pushed behind them.
\* The loop is cut when the depth to record exceeds maxDepth.
RECURSIVE orientation_bfs(_, _)
orientation_bfs(st, maxDepth) ==
    IF st.queue = << >> \/ st.queue[1][2] > maxDepth THEN st
    ELSE LET n == Len(st.queue)
             done == orientation_pops(st, 1, n)
         IN  orientation_bfs([table |-> done.table,
                              queue |-> SubSeq(done.queue, n + 1, Len(done.queue))],
                             maxDepth)

\* a faulty build: the solved cube is queued with depth instead of depth + 1
compute_orientation_lookup_table_same_depth(maxDepth) ==
    LET c == new_solved
        orient == get_orientation(c)
    IN  orientation_bfs([table |-> table_set(<< >>, orient, 0),
                         queue |-> << <<c, 0>> >>], maxDepth).table

\* compute_orientation_lookup_table, cut at the depth maxDepth
compute_orientation_lookup_table(maxDepth) ==
    LET c == new_solved
        orient == get_orientation(c)
    IN  orientation_bfs([table |-> table_set(<< >>, orient, 0),
                         queue |-> << <<c, 0 + 1>> >>], maxDepth).table

\* permutation.map(|t| t.into()): a corner as a usize is its identity
into_usize(corner) == corner.id

\* a faulty inner loop: skip(i + 1) is left out, every position is compared
factoradic_digit_no_skip(perm, i, n) ==
    Cardinality({j \in 0..(n - 1) : into_usize(perm[j]) < into_usize(perm[i])})

\* the inner loop of encode_permutation: the positions j > i with perm[j] < perm[i]
factoradic_digit(perm, i, n) ==
    Cardinality({j \in (i + 1)..(n - 1) : into_usize(perm[j]) < into_usize(perm[i])})

RECURSIVE Factorial(_)
Factorial(k) == IF k <= 1 THEN 1 ELSE k * Factorial(k - 1)

\* factoradic_to_decimal from the digit of position i on: the digit at
\* position i of n weighs (n - 1 - i)!; the last position is skipped
RECURSIVE factoradic_to_decimal(_, _, _)
factoradic_to_decimal(perm, i, n) ==
    IF i > n - 2 THEN 0
    ELSE factoradic_digit(perm, i, n) * Factorial(n - 1 - i)
         + factoradic_to_decimal(perm, i + 1, n)

\* encode_permutation on the 8 corner slots
encode_permutation(corners) == factoradic_to_decimal(corners, 0, 8)

\* GroupInfo::G1_MOVESET, in the order of the array
G1_MOVESET ==
    << Twist("U", "One"), Twist("U", "Two"), Twist("U", "Prime"),
       Twist("D", "One"), Twist("D", "Two"), Twist("D", "Prime"),
       Twist("F", "Two"), Twist("B", "Two"), Twist("L", "Two"), Twist("R", "Two") >>

\* permutation_table_compute; st is [table, cube], the two &mut arguments.
\* The for loop over the allowed moves is permutation_table_moves.
RECURSIVE permutation_table_compute(_, _, _, _)
RECURSIVE permutation_table_moves(_, _, _, _, _, _)
\* a faulty permutation_table_compute: the entry is written whether or not it
\* still holds u8::MAX
permutation_table_compute_overwrite(st, depth, move_count, prev) ==
    IF move_count = depth
    THEN [st EXCEPT !.table = table_set(st.table, encode_permutation(st.cube.corners), depth)]
    ELSE LET moves == allowed_moves_from_moveset(G1_MOVESET, prev)
         IN  permutation_table_moves(st, depth, move_count, moves, 1, Len(moves))

permutation_table_compute(st, depth, move_count, prev) ==
    IF move_count = depth
    THEN LET i == encode_permutation(st.cube.corners)
         IN  IF table_get(st.table, i) = U8_MAX
             THEN [st EXCEPT !.table = table_set(st.table, i, depth)]
             ELSE st
    ELSE LET moves == allowed_moves_from_moveset(G1_MOVESET, prev)
         IN  permutation_table_moves(st, depth, move_count, moves, 1, Len(moves))

\* the iterations lo..hi of the for loop of permutation_table_compute (the
\* table holds the entry of depth 0 by then: the test on it only makes TLC
\* evaluate st before the next iteration starts)
permutation_table_moves(st, depth, move_count, moves, lo, hi) ==
    IF lo > hi \/ DOMAIN st.table = {} THEN st
    ELSE IF lo = hi
         THEN LET tw == moves[lo]
                  r == permutation_table_compute(
                           [st EXCEPT !.cube = twist(st.cube, tw)],
                           depth, move_count + 1, tw.turn)
              IN  [r EXCEPT !.cube = twist(r.cube, inverse(tw))]
         ELSE LET mid == (lo + hi) \div 2
              IN  permutation_table_moves(
                      permutation_table_moves(st, depth, move_count, moves, lo, mid),
                      depth, move_count, moves, mid + 1, hi)

\* the while loop of compute_permutation_table from the depth `depth` on,
\* cut after the depth maxDepth
RECURSIVE permutation_table_depths(_, _, _)
permutation_table_depths(st, depth, maxDepth) ==
    IF depth > maxDepth \/ Cardinality(DOMAIN st.table) = Factorial(8) THEN st
    ELSE permutation_table_depths(permutation_table_compute(st, depth, 0, "NoTurn"),
                                  depth + 1, maxDepth)

\* compute_permutation_table, cut after the depth maxDepth
compute_permutation_table(maxDepth) ==
    permutation_table_depths([table |-> << >>, cube |-> new_solved], 0, maxDepth).table

\* tests::uniqueness_of_encoded_permutation: the options handed to the helper
\* and the length N of perm
PERM_OPTIONS == <<0, 1, 2, 3, 4, 5, 6, 7>>

PERM_N == Len(PERM_OPTIONS)

\* the OnceLock statics, as get_orientation_table / get_permutation_table
\* return them when no table file exists
CORNER_ORIENTATION_TABLE == compute_orientation_lookup_table(MaxOrientDepth)

CORNER_PERMUTATION_TABLE == compute_permutation_table(MaxPermDepth)

(***************************************************************************)
(* Heuristics and goal predicates.                                         *)
(***************************************************************************)
RECURSIVE orientation_total(_, _)
orientation_total(corners, i) ==
    IF i > 7 THEN 0 ELSE corners[i].orientation + orientation_total(corners, i + 1)

\* a faulty div_ceil: one more than the quotient, also when b divides a
div_ceil_exact_rounds_up(a, b) == a \div b + 1

div_ceil(a, b) == (a + b - 1) \div b

corner_orientation_heuristic(c) == div_ceil(orientation_total(c.corners, 0), 3)

edge_orientation_heuristic(c) ==
    div_ceil(Cardinality({i \in 0..11 : c.edges[i].flipped}), 3)

pattern_heuristic(c) == table_get(CORNER_ORIENTATION_TABLE, get_orientation(c))

max(a, b) == IF a >= b THEN a ELSE b

\* a faulty min: the larger of the two
min_takes_larger(a, b) == IF a <= b THEN b ELSE a

min(a, b) == IF a <= b THEN a ELSE b

g1_heuristic(c) ==
    max(max(corner_orientation_heuristic(c), edge_orientation_heuristic(c)),
        pattern_heuristic(c))

\* a faulty solved_heuristic: one more than the table entry
solved_heuristic_plus_one(c) ==
    table_get(CORNER_PERMUTATION_TABLE, encode_permutation(c.corners)) + 1

solved_heuristic(c) == table_get(CORNER_PERMUTATION_TABLE, encode_permutation(c.corners))

\* a faulty is_g1: only the flipped test of the edge loop is made
is_g1_flips_only(c) == \A i \in 0..11 : ~c.edges[i].flipped

is_g1(c) ==
    /\ \A i \in 0..11 :
          /\ ~c.edges[i].flipped
          /\ i \in {EdgePos.BL, EdgePos.BR, EdgePos.FR, EdgePos.FL}
                => c.edges[i].id \in {EdgeId.BO, EdgeId.BR, EdgeId.GR, EdgeId.GO}
    /\ \A i \in 0..7 : c.corners[i].orientation = 0

(***************************************************************************)
(* The solver.  A GroupInfo names its check and heuristic; check and       *)
(* heuristic call the function the field points to.                        *)
(***************************************************************************)
PHASE1 == [check |-> "is_g1", heuristic |-> "g1_heuristic", moveset |-> ALL_MOVES]

PHASE2 == [check |-> "is_solved", heuristic |-> "solved_heuristic", moveset |-> G1_MOVESET]

\* a faulty check: the answer of the function is negated
check_negated(g_info, c) == IF g_info.check = "is_g1" THEN ~is_g1(c) ELSE ~is_solved(c)

check(g_info, c) == IF g_info.check = "is_g1" THEN is_g1(c) ELSE is_solved(c)

heuristic(g_info, c) ==
    IF g_info.heuristic = "g1_heuristic" THEN g1_heuristic(c) ELSE solved_heuristic(c)

\* usize::MAX, the start value of min_excess; f = g + h stays far below it
MAX == 2147483647

\* dfs.  The result is [found, v, cube, solution, unfilled]: Found or
\* Excess(v), the cube and the solution buffer as the call leaves them, and
\* whether the call read a table entry the cut tables do not hold.  p holds
\* the cube, its heuristic and the moves of the for loop, each computed once.
RECURSIVE dfs(_, _, _, _, _, _)
RECURSIVE dfs_moves(_, _, _, _, _, _, _)
dfs(c, g, bnd, prev, g_info, sol) ==
    CHOOSE r \in
        { IF g + p.h > bnd
          THEN [found |-> FALSE, v |-> g + p.h, cube |-> p.cb, solution |-> sol,
                unfilled |-> p.h >= U8_MAX]
          ELSE IF check(g_info, p.cb)
          THEN [found |-> TRUE, v |-> 0, cube |-> p.cb, solution |-> sol,
                unfilled |-> FALSE]
          ELSE dfs_moves([found |-> FALSE, v |-> MAX, cube |-> p.cb,
                          solution |-> sol, unfilled |-> FALSE],
                         g, bnd, g_info, p.moves, 1, Len(p.moves))
          : p \in { [cb |-> x, h |-> heuristic(g_info, x),
                     moves |-> allowed_moves_from_moveset(g_info.moveset, prev)]
                    : x \in {c} } } : TRUE

\* the iterations lo..hi of the for loop of dfs; st.v is min_excess.  Once an
\* iteration has returned Found the loop has been left.
dfs_moves(st, g, bnd, g_info, moves, lo, hi) ==
    CHOOSE r \in
        { CASE lo > hi \/ s.found -> s
            [] lo < hi /\ ~s.found ->
                   dfs_moves(dfs_moves(s, g, bnd, g_info, moves, lo, (lo + hi) \div 2),
                             g, bnd, g_info, moves, (lo + hi) \div 2 + 1, hi)
            [] lo = hi /\ ~s.found ->
                   CHOOSE q \in
                       { IF t.found
                         THEN [t EXCEPT !.solution = Append(t.solution, moves[lo]),
                                        !.unfilled = s.unfilled \/ t.unfilled]
                         ELSE [found |-> FALSE, v |-> min(s.v, t.v),
                               cube |-> twist(t.cube, inverse(moves[lo])),
                               solution |-> t.solution,
                               unfilled |-> s.unfilled \/ t.unfilled]
                         : t \in {dfs(twist(s.cube, moves[lo]), g + 1, bnd,
                                      moves[lo].turn, g_info, s.solution)} } : TRUE
          : s \in {st} } : TRUE

\* a faulty reverse: the vector is left in the order dfs pushed it
reverse_noop(s) == s

\* Vec::reverse
RECURSIVE reverse(_)
reverse(s) == IF s = << >> THEN << >> ELSE Append(reverse(Tail(s)), Head(s))

\* a faulty loop of group_solver: on Excess(v) the bound is left as it was
group_solver_iteration_keeps_bound(c, bnd, sol, g_info) ==
    Only({ IF result.found
           THEN [returned |-> TRUE, alg |-> reverse(result.solution), bound |-> bnd,
                 cube |-> result.cube, solution |-> result.solution,
                 unfilled |-> result.unfilled]
           ELSE [returned |-> FALSE, alg |-> << >>, bound |-> bnd,
                 cube |-> result.cube, solution |-> result.solution,
                 unfilled |-> result.unfilled]
           : result \in {dfs(c, 0, bnd, "NoTurn", g_info, sol)} })

\* a faulty loop of group_solver: on Found the cube is put back as it was on
\* entry
group_solver_iteration_restores_cube(c, bnd, sol, g_info) ==
    Only({ IF result.found
           THEN [returned |-> TRUE, alg |-> reverse(result.solution), bound |-> bnd,
                 cube |-> c, solution |-> result.solution,
                 unfilled |-> result.unfilled]
           ELSE [returned |-> FALSE, alg |-> << >>, bound |-> result.v,
                 cube |-> result.cube, solution |-> result.solution,
                 unfilled |-> result.unfilled]
           : result \in {dfs(c, 0, bnd, "NoTurn", g_info, sol)} })

\* one iteration of the loop of group_solver: [returned, alg, bound, cube,
\* solution, unfilled]
group_solver_iteration(c, bnd, sol, g_info) ==
    Only({ IF result.found
           THEN [returned |-> TRUE, alg |-> reverse(result.solution), bound |-> bnd,
                 cube |-> result.cube, solution |-> result.solution,
                 unfilled |-> result.unfilled]
           ELSE [returned |-> FALSE, alg |-> << >>, bound |-> result.v,
                 cube |-> result.cube, solution |-> result.solution,
                 unfilled |-> result.unfilled]
           : result \in {dfs(c, 0, bnd, "NoTurn", g_info, sol)} })

(***************************************************************************)
(* The engine as a state machine: a caller builds the solved cube and      *)
(* applies twists to it, one at a time.                                    *)
(***************************************************************************)
\* the threads that call the table getters
Threads == 1..MaxThreads

\* the two tables: CORNER_PERMUTATION_TABLE and CORNER_ORIENTATION_TABLE
TABLES == {"permutation", "orientation"}

\* OnceLock::new(): no value, and no closure has completed
UNINIT == [state |-> "uninit", value |-> << >>, completed |-> 0]

Init ==
    /\ cube = new_solved
    /\ count = 0
    /\ prev_turn = "NoTurn"
    /\ pc = "scramble"
    /\ bound = 0
    /\ solution = << >>
    /\ alg = << >>
    /\ start = new_solved
    /\ alg1 = << >>
    /\ permutation = [i \in 0..(PERM_N - 1) |-> Corner(0, 0)]
    /\ options = PERM_OPTIONS
    /\ encoded_perms = << >>
    /\ text = << >>
    /\ twists = << >>
    /\ const_twists = << >>
    /\ simplified = << >>
    /\ once = [k \in TABLES |-> UNINIT]
    /\ files = [k \in TABLES |-> << >>]
    /\ threads = [t \in Threads |->
                      [pc |-> "idle", table |-> "permutation", local |-> << >>,
                       seen |-> [k \in TABLES |-> << >>]]]

\* cube.twist(t) for any twist value t
ApplyTwist(t) ==
    /\ pc = "scramble"
    /\ count < MaxTwists
    /\ cube' = twist(cube, t)
    /\ count' = count + 1
    /\ UNCHANGED <<fn_vars, prev_turn, pc, bound, solution, alg, start, alg1>>

CubeNext == \E t \in AnyTwist : ApplyTwist(t)

CubeSpec == Init /\ [][CubeNext]_vars

(***************************************************************************)
(* The program: main scrambles the solved cube with twists drawn by        *)
(* Twist::new_random and calls solver, which runs group_solver twice.      *)
(* pc is "scramble", then "phase1" and "phase2" while the loop of          *)
(* group_solver runs for that phase, then "done" when solver has returned. *)
(***************************************************************************)
\* cube.twist(Twist::new_random(prev_turn)), the twist drawn being t
Scramble(t) ==
    /\ pc = "scramble"
    /\ count < MaxScramble
    /\ \E i \in 1..Len(ALL_MOVES) : ALL_MOVES[i] = t /\ allowed(t, prev_turn)
    /\ cube' = twist(cube, t)
    /\ count' = count + 1
    /\ prev_turn' = t.turn
    /\ UNCHANGED <<fn_vars, pc, bound, solution, alg, start, alg1>>

\* solver is called: group_solver starts for phase 1
SolverStart ==
    /\ pc = "scramble"
    /\ pc' = "phase1"
    /\ start' = cube
    /\ bound' = heuristic(PHASE1, cube)
    /\ solution' = << >>
    /\ UNCHANGED <<fn_vars, cube, count, prev_turn, alg, alg1>>

\* one iteration of group_solver's loop in phase 1; on Found group_solver
\* returns alg and solver starts group_solver for phase 2 on the same cube
Phase1Iterate ==
    /\ pc = "phase1"
    /\ bound <= MaxBound
    /\ \E r \in {group_solver_iteration(cube, bound, solution, PHASE1)} :
           /\ ~r.unfilled
           /\ cube' = r.cube
           /\ IF r.returned
              THEN /\ pc' = "phase2"
                   /\ alg' = r.alg
                   /\ alg1' = r.alg
                   /\ bound' = heuristic(PHASE2, r.cube)
                   /\ solution' = << >>
              ELSE /\ bound' = r.bound
                   /\ solution' = r.solution
                   /\ UNCHANGED <<pc, alg, alg1>>
    /\ UNCHANGED <<fn_vars, count, prev_turn, start>>

\* one iteration of group_solver's loop in phase 2; on Found group_solver
\* returns alg2, solver appends it to alg and returns
Phase2Iterate ==
    /\ pc = "phase2"
    /\ bound <= MaxBound
    /\ \E r \in {group_solver_iteration(cube, bound, solution, PHASE2)} :
           /\ ~r.unfilled
           /\ cube' = r.cube
           /\ solution' = r.solution
           /\ IF r.returned
              THEN /\ pc' = "done"
                   /\ alg' = alg \o r.alg
                   /\ UNCHANGED bound
              ELSE /\ bound' = r.bound
                   /\ UNCHANGED <<pc, alg>>
    /\ UNCHANGED <<fn_vars, count, prev_turn, start, alg1>>

Next ==
    \/ \E t \in AnyTwist : Scramble(t)
    \/ SolverStart
    \/ Phase1Iterate
    \/ Phase2Iterate

Spec == Init /\ [][Next]_vars

\* solver runs to its end once called: the loop of group_solver waits for
\* nothing, so an iteration that can be taken is taken
LiveSpec == Spec /\ WF_vars(Phase1Iterate) /\ WF_vars(Phase2Iterate)


(***************************************************************************)
(* group_solver called for phase 2 alone, on a cube reached from the       *)
(* solved cube by moves of G1_MOVESET.                                     *)
(***************************************************************************)
ScrambleG1(t) ==
    /\ pc = "scramble"
    /\ count < MaxScramble
    /\ \E i \in 1..Len(G1_MOVESET) : G1_MOVESET[i] = t /\ allowed(t, prev_turn)
    /\ cube' = twist(cube, t)
    /\ count' = count + 1
    /\ prev_turn' = t.turn
    /\ UNCHANGED <<fn_vars, pc, bound, solution, alg, start, alg1>>

Phase2Start ==
    /\ pc = "scramble"
    /\ pc' = "phase2"
    /\ start' = cube
    /\ bound' = heuristic(PHASE2, cube)
    /\ solution' = << >>
    /\ UNCHANGED <<fn_vars, cube, count, prev_turn, alg, alg1>>

G1Next ==
    \/ \E t \in AnyTwist : ScrambleG1(t)
    \/ Phase2Start
    \/ Phase2Iterate

G1Spec == Init /\ [][G1Next]_vars

(***************************************************************************)
(* Algorithm::new_random: alg is the vector twists being filled, prev_turn *)
(* the local of that name.  The length asked for is any up to             *)
(* MaxRandomLen.                                                           *)
(***************************************************************************)
\* one iteration of the loop: Twist::new_random(rng, prev_turn) draws the
\* i-th of the allowed moves
NewRandomPush(i) ==
    /\ pc = "scramble"
    /\ Len(alg) < MaxRandomLen
    /\ i \in 1..Len(allowed_moves(prev_turn))
    /\ alg' = Append(alg, allowed_moves(prev_turn)[i])
    /\ prev_turn' = allowed_moves(prev_turn)[i].turn
    /\ UNCHANGED <<fn_vars, cube, count, pc, bound, solution, start, alg1>>

RandomNext == \E i \in 1..Len(ALL_TWISTS) : NewRandomPush(i)

RandomSpec == Init /\ [][RandomNext]_vars

(***************************************************************************)
(* Any sequence of moves of G1_MOVESET applied to the solved cube, whether *)
(* or not it passes the filter of allowed_moves_from_moveset; alg records  *)
(* the moves made.                                                         *)
(***************************************************************************)
ApplyG1Move(i) ==
    /\ pc = "scramble"
    /\ Len(alg) < MaxPermMoves
    /\ i \in 1..Len(G1_MOVESET)
    /\ cube' = twist(cube, G1_MOVESET[i])
    /\ alg' = Append(alg, G1_MOVESET[i])
    /\ UNCHANGED <<fn_vars, count, prev_turn, pc, bound, solution, start, alg1>>

PermNext == \E i \in 1..Len(G1_MOVESET) : ApplyG1Move(i)

PermSpec == Init /\ [][PermNext]_vars

(***************************************************************************)
(* encode_permutation on every permutation, as the test                    *)
(* uniqueness_of_encoded_permutation feeds it: the helper writes one of    *)
(* the remaining options at the position N - options.len() and recurses on *)
(* the options left; when none is left it pushes the code of perm.  Each   *)
(* behaviour follows one branch of the helper's loop.  The values are held *)
(* as corners of that identity, the element type solved_heuristic passes.  *)
(***************************************************************************)
\* options without its i-th element (options_without_c)
options_without(opts, i) == SubSeq(opts, 1, i - 1) \o SubSeq(opts, i + 1, Len(opts))

PlaceOption(i) ==
    /\ options # << >>
    /\ i \in 1..Len(options)
    /\ permutation' = [permutation EXCEPT ![PERM_N - Len(options)] = Corner(options[i], 0)]
    /\ options' = options_without(options, i)
    /\ UNCHANGED <<lock_vars, cube, count, prev_turn, pc, bound, solution, alg, start, alg1,
                   encoded_perms, text, twists, const_twists, simplified>>

PushEncoded ==
    /\ options = << >>
    /\ encoded_perms = << >>
    /\ encoded_perms' = Append(encoded_perms, encode_permutation(permutation))
    /\ UNCHANGED <<lock_vars, cube, count, prev_turn, pc, bound, solution, alg, start, alg1,
                   permutation, options, text, twists, const_twists, simplified>>

EncodeNext ==
    \/ \E i \in 1..PERM_N : PlaceOption(i)
    \/ PushEncoded

EncodeSpec == Init /\ [][EncodeNext]_vars

(***************************************************************************)
(* An algorithm over the 18 twists of ALL_TWISTS is built, formatted, and  *)
(* its text parsed by Algorithm::from_str and by                           *)
(* ConstAlgorithm::<n>::from_str, as the test                              *)
(* const_and_non_const_alg_from_string_same_result does with n the length  *)
(* of the algorithm; here n is any length up to MaxAlgLen.                 *)
(***************************************************************************)
PushTwist(i) ==
    /\ pc = "scramble"
    /\ Len(alg) < MaxAlgLen
    /\ i \in 1..Len(ALL_TWISTS)
    /\ alg' = Append(alg, ALL_TWISTS[i])
    /\ UNCHANGED <<lock_vars, cube, count, prev_turn, pc, bound, solution, start, alg1,
                   permutation, options, encoded_perms, text, twists,
                   const_twists, simplified>>

Format ==
    /\ pc = "scramble"
    /\ pc' = "formatted"
    /\ text' = algorithm_fmt(alg)
    /\ UNCHANGED <<lock_vars, cube, count, prev_turn, bound, solution, alg, start, alg1,
                   permutation, options, encoded_perms, twists, const_twists,
                   simplified>>

FromStr ==
    /\ pc = "formatted"
    /\ pc' = "parsed"
    /\ twists' = algorithm_from_str(text)
    /\ UNCHANGED <<lock_vars, cube, count, prev_turn, bound, solution, alg, start, alg1,
                   permutation, options, encoded_perms, text, const_twists,
                   simplified>>

ConstFromStr(n) ==
    /\ pc = "parsed"
    /\ pc' = "const_parsed"
    /\ const_twists' = const_algorithm_from_str(text, n)
    /\ UNCHANGED <<lock_vars, cube, count, prev_turn, bound, solution, alg, start, alg1,
                   permutation, options, encoded_perms, text, twists, simplified>>

FormatNext ==
    \/ \E i \in 1..Len(ALL_TWISTS) : PushTwist(i)
    \/ Format
    \/ FromStr
    \/ \E n \in 0..MaxAlgLen : ConstFromStr(n)

FormatSpec == Init /\ [][FormatNext]_vars

(***************************************************************************)
(* An algorithm over all 24 twists, those of direction None included, is   *)
(* built and simplify is called on it twice.  alg keeps the algorithm      *)
(* built, simplified is self.twists after the first call and twists is     *)
(* self.twists after the second.                                           *)
(***************************************************************************)
PushAnyTwist(t) ==
    /\ pc = "scramble"
    /\ Len(alg) < MaxSimplifyLen
    /\ alg' = Append(alg, t)
    /\ UNCHANGED <<lock_vars, cube, count, prev_turn, pc, bound, solution, start, alg1,
                   permutation, options, encoded_perms, text, twists,
                   const_twists, simplified>>

Simplify ==
    /\ pc = "scramble"
    /\ pc' = "simplified"
    /\ simplified' = simplify(alg)
    /\ UNCHANGED <<lock_vars, cube, count, prev_turn, bound, solution, alg, start, alg1,
                   permutation, options, encoded_perms, text, twists,
                   const_twists>>

SimplifyAgain ==
    /\ pc = "simplified"
    /\ pc' = "simplified_again"
    /\ twists' = simplify(simplified)
    /\ UNCHANGED <<lock_vars, cube, count, prev_turn, bound, solution, alg, start, alg1,
                   permutation, options, encoded_perms, text, const_twists,
                   simplified>>

SimplifyNext ==
    \/ \E t \in AnyTwist : PushAnyTwist(t)
    \/ Simplify
    \/ SimplifyAgain

SimplifySpec == Init /\ [][SimplifyNext]_vars

(***************************************************************************)
(* A caller builds the solved cube and applies one of the named            *)
(* algorithms to it, twist by twist, up to MaxApplications times in a row  *)
(* (bin/testing.rs does so once with UA_PERM).  alg is the algorithm       *)
(* chosen and count the number of twists made.                             *)
(***************************************************************************)
ChooseConstAlgorithm(i) ==
    /\ pc = "scramble"
    /\ alg = << >>
    /\ count = 0
    /\ i \in 1..Len(CONST_ALGORITHMS)
    /\ ~CONST_ALGORITHMS[i].panicked
    /\ alg' = to_algorithm(CONST_ALGORITHMS[i])
    /\ pc' = "apply"
    /\ UNCHANGED <<fn_vars, cube, count, prev_turn, bound, solution, start, alg1>>

ApplyConstTwist ==
    /\ pc = "apply"
    /\ count < MaxApplications * Len(alg)
    /\ cube' = twist(cube, alg[(count % Len(alg)) + 1])
    /\ count' = count + 1
    /\ UNCHANGED <<fn_vars, prev_turn, pc, bound, solution, alg, start, alg1>>

ScenarioNext ==
    \/ \E i \in 1..Len(CONST_ALGORITHMS) : ChooseConstAlgorithm(i)
    \/ ApplyConstTwist

ScenarioSpec == Init /\ [][ScenarioNext]_vars

(***************************************************************************)
(* The table getters of solver/mod.rs: threads call get_permutation_table  *)
(* and get_orientation_table, each a OnceLock::get_or_init whose closure   *)
(* loads the table file when it exists and computes and writes it when it  *)
(* does not.                                                               *)
(***************************************************************************)
\* what the closure computes: compute_permutation_table() or
\* compute_orientation_lookup_table()
computed_table(k) ==
    IF k = "permutation" THEN CORNER_PERMUTATION_TABLE ELSE CORNER_ORIENTATION_TABLE

\* the length of the Vec<u8> of a table: 8! and 3^7 * 2^11
table_len(k) == IF k = "permutation" THEN Factorial(8) ELSE 2187 * 2048

\* bincode of a LookupTable: the length of the vector, then its bytes
serialize(table, len) == [len |-> len, bytes |-> table, truncated |-> FALSE]

\* bincode::deserialize: fails on data shorter than its length prefix says,
\* and accepts a vector of any length
deserialize(data) == IF data.truncated THEN << >> ELSE <<data.bytes>>

\* a file an earlier run can have left: the table, a table of another build
\* (here the empty vector), or a file cut short
EARLIER_FILES(k) ==
    { serialize(computed_table(k), table_len(k)),
      serialize(<< >>, 0),
      [len |-> table_len(k), bytes |-> << >>, truncated |-> TRUE] }

\* a check-then-compute without a lock: a caller starts the closure while
\* another one is still running it
may_run_closure_unsynchronised(cell) == cell.state # "complete"

\* OnceLock::get_or_init: the caller that finds the cell uninitialised runs
\* the closure; callers that find it running block until it is complete
may_run_closure(cell) == cell.state = "uninit"

\* the environment: the file of table k is there from an earlier run
EarlierRunLeftFile(k, data) ==
    /\ files[k] = << >>
    /\ once[k] = UNINIT
    /\ \A t \in Threads : threads[t].pc = "idle" /\ threads[t].seen[k] = << >>
    /\ files' = [files EXCEPT ![k] = <<data>>]
    /\ UNCHANGED <<once, threads>>
    /\ UNCHANGED <<cube, count, prev_turn, pc, bound, solution, alg, start, alg1,
                   permutation, options, encoded_perms, text, twists,
                   const_twists, simplified>>

\* thread t calls get_permutation_table() or get_orientation_table()
CallGetter(t, k) ==
    /\ threads[t].pc = "idle"
    /\ threads' = [threads EXCEPT ![t].pc = "get_or_init", ![t].table = k]
    /\ UNCHANGED <<once, files>>
    /\ UNCHANGED <<cube, count, prev_turn, pc, bound, solution, alg, start, alg1,
                   permutation, options, encoded_perms, text, twists,
                   const_twists, simplified>>

\* get_or_init: return the value of a complete cell, or start the closure
\* of an uninitialised one; a caller of a running cell waits
GetOrInit(t) ==
    /\ threads[t].pc = "get_or_init"
    /\ \E k \in {threads[t].table} :
           IF once[k].state = "complete"
           THEN /\ threads' = [threads EXCEPT ![t].pc = "idle",
                                              ![t].seen[k] = once[k].value]
                /\ UNCHANGED once
           ELSE /\ may_run_closure(once[k])
                /\ once' = [once EXCEPT ![k].state = "running"]
                /\ threads' = [threads EXCEPT ![t].pc = "path_exists"]
    /\ UNCHANGED files
    /\ UNCHANGED <<cube, count, prev_turn, pc, bound, solution, alg, start, alg1,
                   permutation, options, encoded_perms, text, twists,
                   const_twists, simplified>>

\* the closure: if path.exists()
PathExists(t) ==
    /\ threads[t].pc = "path_exists"
    /\ threads' = [threads EXCEPT ![t].pc =
                       IF files[threads[t].table] # << >> THEN "load" ELSE "compute"]
    /\ UNCHANGED <<once, files>>
    /\ UNCHANGED <<cube, count, prev_turn, pc, bound, solution, alg, start, alg1,
                   permutation, options, encoded_perms, text, twists,
                   const_twists, simplified>>

\* the closure returns table: the cell is complete with it and get_or_init
\* returns the cell's value to the caller
closure_returns(t, k, table) ==
    /\ once' = [once EXCEPT ![k] = [state |-> "complete", value |-> <<table>>,
                                    completed |-> once[k].completed + 1]]
    /\ threads' = [threads EXCEPT ![t].pc = "idle", ![t].local = << >>,
                                  ![t].seen[k] = <<table>>]

\* the closure: fs::read, bincode::deserialize; expect panics on a failure,
\* the thread unwinds and the cell is uninitialised again
LoadTable(t) ==
    /\ threads[t].pc = "load"
    /\ \E k \in {threads[t].table} :
       \E r \in {deserialize(files[k][1])} :
           IF r = << >>
           THEN /\ threads' = [threads EXCEPT ![t].pc = "panicked"]
                /\ once' = [once EXCEPT ![k].state =
                                IF once[k].state = "complete" THEN "complete" ELSE "uninit"]
           ELSE closure_returns(t, k, r[1])
    /\ UNCHANGED files
    /\ UNCHANGED <<cube, count, prev_turn, pc, bound, solution, alg, start, alg1,
                   permutation, options, encoded_perms, text, twists,
                   const_twists, simplified>>

\* the closure: let table = compute_..._table()
ComputeTable(t) ==
    /\ threads[t].pc = "compute"
    /\ threads' = [threads EXCEPT ![t].pc = "write",
                                  ![t].local = <<computed_table(threads[t].table)>>]
    /\ UNCHANGED <<once, files>>
    /\ UNCHANGED <<cube, count, prev_turn, pc, bound, solution, alg, start, alg1,
                   permutation, options, encoded_perms, text, twists,
                   const_twists, simplified>>

\* the closure: bincode::serialize, fs::write, then table is returned
WriteTable(t) ==
    /\ threads[t].pc = "write"
    /\ \E k \in {threads[t].table} :
           /\ files' = [files EXCEPT ![k] = <<serialize(threads[t].local[1], table_len(k))>>]
           /\ closure_returns(t, k, threads[t].local[1])
    /\ UNCHANGED <<cube, count, prev_turn, pc, bound, solution, alg, start, alg1,
                   permutation, options, encoded_perms, text, twists,
                   const_twists, simplified>>

OnceNext ==
    \/ \E k \in TABLES : \E data \in EARLIER_FILES(k) : EarlierRunLeftFile(k, data)
    \/ \E t \in Threads : \E k \in TABLES : CallGetter(t, k)
    \/ \E t \in Threads : GetOrInit(t)
    \/ \E t \in Threads : PathExists(t)
    \/ \E t \in Threads : LoadTable(t)
    \/ \E t \in Threads : ComputeTable(t)
    \/ \E t \in Threads : WriteTable(t)

OnceSpec == Init /\ [][OnceNext]_vars

(***************************************************************************)
(* Any sequence of twists of ALL_MOVES, or of moves of G1_MOVESET, applied *)
(* to the cube start, whether or not it passes the filter of               *)
(* allowed_moves_from_moveset; alg records the sequence, pc the set.       *)
(***************************************************************************)
ApplyAnyMove(i) ==
    /\ pc \in {"scramble", "all_moves"}
    /\ Len(alg) < MaxPathLen
    /\ i \in 1..Len(ALL_MOVES)
    /\ pc' = "all_moves"
    /\ cube' = twist(cube, ALL_MOVES[i])
    /\ alg' = Append(alg, ALL_MOVES[i])
    /\ UNCHANGED <<fn_vars, count, prev_turn, bound, solution, start, alg1>>

ApplyAnyG1Move(i) ==
    /\ pc \in {"scramble", "g1_moves"}
    /\ Len(alg) < MaxPathLen
    /\ i \in 1..Len(G1_MOVESET)
    /\ pc' = "g1_moves"
    /\ cube' = twist(cube, G1_MOVESET[i])
    /\ alg' = Append(alg, G1_MOVESET[i])
    /\ UNCHANGED <<fn_vars, count, prev_turn, bound, solution, start, alg1>>

PathNext ==
    \/ \E i \in 1..Len(ALL_MOVES) : ApplyAnyMove(i)
    \/ \E i \in 1..Len(G1_MOVESET) : ApplyAnyG1Move(i)

PathSpec == Init /\ [][PathNext]_vars

\* the search of dfs without its heuristic and its check: some sequence of
\* at most n moves, each taken from allowed_moves_from_moveset(moveset, the
\* face of the move before it), leads from the cube c to the cube target
RECURSIVE allowed_path_reaches(_, _, _, _, _)
allowed_path_reaches(c, target, n, prev, moveset) ==
    \/ c = target
    \/ /\ n > 0
       /\ \E moves \in {allowed_moves_from_moveset(moveset, prev)} :
          \E i \in 1..Len(moves) :
              allowed_path_reaches(twist(c, moves[i]), target, n - 1,
                                   moves[i].turn, moveset)

(***************************************************************************)
(* Algorithm::from_str on any text: the text is built character by         *)
(* character from face characters, direction characters, whitespace and    *)
(* characters the parser does not know, or is the text "R  U'    F2", and  *)
(* is then parsed.                                                         *)
(***************************************************************************)
\* the characters texts are built from; 120 is 'x' and 117 is 'u'
PARSE_CHARS ==
    {CH.U, CH.R, CH.zero, CH.one, CH.two, CH.three, CH.quote, CH.space, CH.tab,
     120, 117}

\* the bytes of "R  U'    F2"
EXAMPLE_STR ==
    <<CH.R, CH.space, CH.space, CH.U, CH.quote, CH.space, CH.space, CH.space,
      CH.space, CH.F, CH.two>>

PushChar(c) ==
    /\ pc = "scramble"
    /\ Len(text) < MaxTextLen
    /\ text' = Append(text, c)
    /\ UNCHANGED <<lock_vars, cube, count, prev_turn, pc, bound, solution, alg, start,
                   alg1, permutation, options, encoded_perms, twists, const_twists,
                   simplified>>

ExampleText ==
    /\ pc = "scramble"
    /\ text = << >>
    /\ text' = EXAMPLE_STR
    /\ pc' = "example"
    /\ UNCHANGED <<lock_vars, cube, count, prev_turn, bound, solution, alg, start,
                   alg1, permutation, options, encoded_perms, twists, const_twists,
                   simplified>>

ParseText ==
    /\ pc \in {"scramble", "example"}
    /\ pc' = "parsed"
    /\ twists' = algorithm_from_str(text)
    /\ UNCHANGED <<lock_vars, cube, count, prev_turn, bound, solution, alg, start,
                   alg1, permutation, options, encoded_perms, text, const_twists,
                   simplified>>

ParseNext ==
    \/ \E c \in PARSE_CHARS : PushChar(c)
    \/ ExampleText
    \/ ParseText

ParseSpec == Init /\ [][ParseNext]_vars

\* the cube after the twists of an algorithm, applied in order
RECURSIVE apply_algorithm(_, _)
apply_algorithm(c, a) ==
    IF a = << >> THEN c ELSE apply_algorithm(twist(c, Head(a)), Tail(a))

(***************************************************************************)
(* Properties of the solver, over every run of Spec (solver on a scramble) *)
(* and of G1Spec (phase 2 on a cube reached by G1 moves).                  *)
(***************************************************************************)
\* the subgroup G1 in words: no edge flipped, every corner orientation 0,
\* and the slots BL, BR, FR, FL hold only the edges BO, BR, GR, GO
InG1(c) ==
    /\ \A i \in 0..11 : c.edges[i].flipped = FALSE
    /\ \A i \in 0..7 : c.corners[i].orientation = 0
    /\ {c.edges[i].id : i \in {EdgePos.BL, EdgePos.BR, EdgePos.FR, EdgePos.FL}}
           \subseteq {EdgeId.BO, EdgeId.BR, EdgeId.GR, EdgeId.GO}

\* some sequence of at most k of the 18 twists brings c into G1
RECURSIVE G1Within(_, _)
G1Within(c, k) ==
    \/ InG1(c)
    \/ /\ k > 0
       /\ \E i \in 1..Len(ALL_MOVES) : G1Within(twist(c, ALL_MOVES[i]), k - 1)

\* some sequence of at most k of the 10 G1 moves solves c
RECURSIVE SolvedWithin(_, _)
SolvedWithin(c, k) ==
    \/ c = new_solved
    \/ /\ k > 0
       /\ \E i \in 1..Len(G1_MOVESET) : SolvedWithin(twist(c, G1_MOVESET[i]), k - 1)

\* the iteration of group_solver's loop that the current phase runs next
NextIteration ==
    group_solver_iteration(cube, bound, solution, IF pc = "phase1" THEN PHASE1 ELSE PHASE2)

\* C1: solver soundness.  When solver has returned the algorithm alg for the
\* scrambled cube start, applying the twists of alg in order to start gives
\* the solved cube.
C1_SolverSound == pc = "done" => apply_algorithm(start, alg) = new_solved

\* solver has returned for a full-length scramble, both phases contributed
\* twists, and the algorithm has at least 3 twists
C1_Witness ==
    /\ pc = "done"
    /\ count = MaxScramble
    /\ Len(alg1) >= 1
    /\ Len(alg) > Len(alg1)
    /\ Len(alg) >= 3
    /\ start # new_solved

\* the run has left the part of the search the model follows: the bound is
\* above MaxBound, or the next iteration reads a table entry beyond the depth
\* the tables are computed to
OutOfRange ==
    /\ pc \in {"phase1", "phase2"}
    /\ bound > MaxBound \/ NextIteration.unfilled

\* C2: solver termination.  Once solver has been called (phase 1 runs), the
\* loop of group_solver receives Found in phase 1 and then in phase 2, and
\* solver returns (pc = "done"), unless the run leaves the range of bounds
\* and table depths the model follows.
C2_SolverTerminates == (pc = "phase1") ~> (pc = "done" \/ OutOfRange)

\* phase 1 has been through an Excess iteration (the bound is above the
\* heuristic it started from) and its next iteration receives Found
C2_Witness ==
    /\ pc = "phase1"
    /\ bound > g1_heuristic(cube)
    /\ \E r \in {NextIteration} : ~r.unfilled /\ r.returned /\ Len(r.alg) >= 2

\* C3: two-phase intermediate.  Once phase 1 has returned alg1 for the cube
\* start, applying alg1 alone to start gives a cube on which is_g1 is true:
\* no edge is flipped, every corner has orientation 0 and the slots BL, BR,
\* FR, FL hold only the edges BO, BR, GR, GO.
C3_Phase1ReachesG1 ==
    pc \in {"phase2", "done"} =>
        LET c == apply_algorithm(start, alg1)
        IN  is_g1(c) /\ InG1(c)

\* phase 1 has returned at least 2 twists for a cube outside G1, and the
\* cube it leaves is in G1 but not solved
C3_Witness ==
    /\ pc = "phase2"
    /\ Len(alg1) >= 2
    /\ ~InG1(start)
    /\ apply_algorithm(start, alg1) # new_solved
    /\ cube = apply_algorithm(start, alg1)

\* C4: g1_heuristic is admissible.  For the cube start handed to solver,
\* g1_heuristic(start) is at most every number k of twists within which
\* start can be brought into G1, and at most the length of the phase-1
\* solution alg1.
C4_G1HeuristicAdmissible ==
    pc \in {"phase1", "phase2", "done"} =>
        /\ \A k \in 0..count : G1Within(start, k) => g1_heuristic(start) <= k
        /\ pc \in {"phase2", "done"} => g1_heuristic(start) <= Len(alg1)

\* C5: solved_heuristic is admissible in phase 2.  For the cube start reached
\* by G1 moves and handed to phase 2, solved_heuristic(start) is at most
\* every number k of G1 moves within which start can be solved, and at most
\* the length of the phase-2 solution.
C5_SolvedHeuristicAdmissible ==
    pc \in {"phase2", "done"} =>
        /\ \A k \in 0..count : SolvedWithin(start, k) => solved_heuristic(start) <= k
        /\ pc = "done" => solved_heuristic(start) <= Len(alg)

\* phase 2 has returned for a cube that no single G1 move solves and whose
\* table entry is 2
C5_Witness ==
    /\ pc = "done"
    /\ count = MaxScramble
    /\ ~SolvedWithin(start, 1)
    /\ solved_heuristic(start) = 2
    /\ Len(alg) >= 2

(***************************************************************************)
(* Properties of the engine, over every cube CubeSpec reaches.             *)
(***************************************************************************)
\* the number of pairs i < j of slots 0..n whose identities are out of order
Inversions(slots, n) ==
    Cardinality({p \in (0..n) \X (0..n) : p[1] < p[2] /\ slots[p[1]].id > slots[p[2]].id})

\* the sum of the orientation values of the 8 corner slots
RECURSIVE OrientationSum(_, _)
OrientationSum(corners, i) ==
    IF i > 7 THEN 0 ELSE corners[i].orientation + OrientationSum(corners, i + 1)

FlippedCount(edges) == Cardinality({i \in 0..11 : edges[i].flipped})

\* C11: same-face composition.  For the cube reached, every face f and all
\* directions d1, d2, the twist (f, d1) followed by (f, d2) gives the cube
\* that the single twist (f, d1 + d2) gives; so an Identity twist changes
\* nothing, a Half turn is two Quarter turns and four Quarter turns restore
\* the cube.
C11_SameFaceComposition ==
    \A f \in Turn :
        /\ \A d1 \in TurnDir, d2 \in TurnDir :
               twist(twist(cube, Twist(f, d1)), Twist(f, d2))
                   = twist(cube, Twist(f, add(d1, d2)))
        /\ twist(cube, Twist(f, "None")) = cube
        /\ twist(twist(cube, Twist(f, "One")), Twist(f, "One")) = twist(cube, Twist(f, "Two"))
        /\ twist(twist(cube, Twist(f, "Two")), Twist(f, "Two")) = cube

\* a scrambled cube on which two Prime turns of F, whose directions add up
\* to 6, give the Half turn of F, and that Half turn changes the cube
C11_Witness ==
    /\ count = MaxTwists
    /\ \E i \in 0..11 : cube.edges[i].flipped
    /\ \E i \in 0..7 : cube.corners[i].orientation # 0
    /\ add("Prime", "Prime") = "Two"
    /\ twist(twist(cube, Twist("F", "Prime")), Twist("F", "Prime")) = twist(cube, Twist("F", "Two"))
    /\ twist(cube, Twist("F", "Two")) # cube

\* C12: scramble move-adjacency.  In the algorithm Algorithm::new_random has
\* built so far, no two adjacent twists share a face, no adjacent ordered
\* pair has the faces (D,U), (L,R) or (B,F), and every twist has a direction
\* other than Identity; the first twist may be any of the 18 twists.
C12_ScrambleAdjacency ==
    /\ \A i \in 1..Len(alg) : alg[i].dir # "None"
    /\ \A i \in 1..(Len(alg) - 1) :
           /\ alg[i].turn # alg[i + 1].turn
           /\ <<alg[i].turn, alg[i + 1].turn>> \notin {<<"D", "U">>, <<"L", "R">>, <<"B", "F">>}
    /\ alg = << >> => allowed_moves(prev_turn) = ALL_TWISTS

\* a full-length algorithm that holds the pairs (R,L) and (L,F): the rule
\* bars (L,R) but not (R,L)
C12_Witness ==
    /\ Len(alg) = MaxRandomLen
    /\ \E i \in 1..(Len(alg) - 1) : alg[i].turn = "R" /\ alg[i + 1].turn = "L"
    /\ \E i \in 1..(Len(alg) - 1) : alg[i].turn = "L" /\ alg[i + 1].turn = "F"

\* C13: G1 characterisation.  A cube reached from solved by twists can be
\* reached from solved by the 10 G1 moves alone exactly if is_g1 holds for
\* it: a cube with is_g1 reached by count twists is solved by at most count
\* G1 moves (whose inverses are G1 moves), every G1 move takes a cube with
\* is_g1 to a cube with is_g1, and no cube without is_g1 is solved by
\* MaxG1Search G1 moves or fewer.
C13_G1Characterisation ==
    /\ is_g1(cube) => SolvedWithin(cube, count)
    /\ is_g1(cube) => \A i \in 1..Len(G1_MOVESET) : is_g1(twist(cube, G1_MOVESET[i]))
    /\ ~is_g1(cube) => ~SolvedWithin(cube, MaxG1Search)

\* a cube in G1 that is neither solved nor one G1 move from solved, and from
\* which a quarter turn of R leaves G1
C13_Witness ==
    /\ count = MaxTwists
    /\ is_g1(cube)
    /\ InG1(cube)
    /\ ~SolvedWithin(cube, 1)
    /\ ~is_g1(twist(cube, Twist("R", "One")))

\* every corner has orientation 0 and no edge is flipped
Oriented(c) ==
    /\ \A i \in 0..7 : c.corners[i].orientation = 0
    /\ \A i \in 0..11 : ~c.edges[i].flipped

\* some sequence of at most k of the 18 twists brings c to an oriented cube
RECURSIVE OrientedWithin(_, _)
OrientedWithin(c, k) ==
    \/ Oriented(c)
    \/ /\ k > 0
       /\ \E i \in 1..Len(ALL_MOVES) : OrientedWithin(twist(c, ALL_MOVES[i]), k - 1)

\* C14 as stated: the orientation-table entry of the cube reached is the
\* minimum number of twists that bring the cube to a state with is_g1 true.
C14_TableIsDistanceToG1 ==
    \A t \in {pattern_heuristic(cube)} :
        t <= MaxOrientDepth =>
            /\ G1Within(cube, t)
            /\ t > 0 => ~G1Within(cube, t - 1)

\* C14, amended: the orientation-table entry of the cube reached is the
\* minimum number of twists that bring the cube to an oriented state (every
\* corner orientation 0, every edge unflipped), and within that many twists
\* less one no state with is_g1 is reached either: the entry is a lower
\* bound on the distance to G1.
C14_TableIsDistanceToOriented ==
    \A t \in {pattern_heuristic(cube)} :
        t <= MaxOrientDepth =>
            /\ OrientedWithin(cube, t)
            /\ t > 0 => ~OrientedWithin(cube, t - 1)
            /\ t > 0 => ~G1Within(cube, t - 1)

\* the cube after L U D2 or one like it: the entry is 2, two twists orient
\* it, but no two twists bring it into G1
C14_Witness ==
    /\ count = MaxTwists
    /\ pattern_heuristic(cube) = 2
    /\ OrientedWithin(cube, 2)
    /\ ~OrientedWithin(cube, 1)
    /\ ~G1Within(cube, 2)

(***************************************************************************)
(* Properties of the lookup tables (PermSpec, CubeSpec), of                *)
(* encode_permutation (EncodeSpec) and of the parsers, the formatter and   *)
(* simplify of algs.rs (FormatSpec, SimplifySpec).                         *)
(***************************************************************************)
\* some sequence of at most k of the 10 G1 moves brings the corners of c to
\* the corner-permutation coordinate 0, that of the solved cube
RECURSIVE CornersSolvedWithin(_, _)
CornersSolvedWithin(c, k) ==
    \/ encode_permutation(c.corners) = 0
    \/ /\ k > 0
       /\ \E i \in 1..Len(G1_MOVESET) : CornersSolvedWithin(twist(c, G1_MOVESET[i]), k - 1)

\* alg has a move that the filter of allowed_moves_from_moveset rejects after
\* the move before it
BreaksAdjacency(a) == \E i \in 1..(Len(a) - 1) : ~allowed(a[i + 1], a[i].turn)

LaterSmaller(perm, i) ==
    Cardinality({j \in (i + 1)..(PERM_N - 1) : perm[j].id < perm[i].id})

\* the sum over the positions i..6 of LaterSmaller * (7 - i)!
RECURSIVE LehmerSum(_, _)
LehmerSum(perm, i) ==
    IF i > PERM_N - 2 THEN 0
    ELSE LaterSmaller(perm, i) * Factorial(PERM_N - 1 - i) + LehmerSum(perm, i + 1)

\* the permutation of the ascending sequence avail that the code k stands
\* for, as a sequence: the digit of weight (Len(avail) - 1)! picks the next
\* value among those not yet used
RECURSIVE LehmerDecode(_, _)
LehmerDecode(k, avail) ==
    IF avail = << >> THEN << >>
    ELSE LET w == Factorial(Len(avail) - 1)
         IN  <<avail[(k \div w) + 1]>>
                 \o LehmerDecode(k % w, options_without(avail, (k \div w) + 1))

\* C17: encode_permutation is injective.  For every permutation of the 8
\* values handed to encode_permutation, the code pushed lies in [0, 8!), is
\* the sum over i = 0..6 of d_i * (7 - i)! with d_i the number of later
\* positions holding a smaller value, and the permutation is recovered from
\* the code alone: two permutations with the same code are the same.
C17_EncodeInjective ==
    encoded_perms # << >> =>
        \A k \in {encoded_perms[1]} :
            /\ k \in 0..(Factorial(PERM_N) - 1)
            /\ k = LehmerSum(permutation, 0)
            /\ LehmerDecode(k, PERM_OPTIONS) = [i \in 1..PERM_N |-> permutation[i - 1].id]

\* the code of the descending permutation has been pushed: the largest code
C17_Witness ==
    /\ encoded_perms = <<Factorial(PERM_N) - 1>>
    /\ \A i \in 0..(PERM_N - 1) : permutation[i].id = PERM_N - 1 - i

\* C18: parser/formatter round trip.  For every algorithm alg over the 18
\* non-identity twists, once its formatted text has been parsed by
\* Algorithm::from_str, the vector parsed equals alg twist for twist.
C18_ParseFormatRoundTrip ==
    pc \in {"parsed", "const_parsed"} => twists = alg

\* an algorithm of MaxAlgLen twists holding a quarter turn, a half turn and
\* a counter-clockwise turn has been formatted and parsed
C18_Witness ==
    /\ pc = "parsed"
    /\ Len(alg) = MaxAlgLen
    /\ \A d \in {"One", "Two", "Prime"} : \E i \in 1..Len(alg) : alg[i].dir = d
    /\ Len(text) = 2 * Len(alg) + 2
    /\ twists = alg

\* C19: the const and the dynamic parser agree.  For every algorithm alg of
\* length n, ConstAlgorithm::<n>::from_str on the formatted text of alg ends
\* without a panic, and its array, as a vector, is the vector that
\* Algorithm::from_str gives for the same text.
C19_ConstParserAgrees ==
    (pc = "const_parsed" /\ Cardinality(DOMAIN const_twists.twists) = Len(alg)) =>
        /\ ~const_twists.panicked
        /\ to_algorithm(const_twists) = twists

\* both parsers have run on the text of an algorithm of MaxAlgLen twists
\* with a half turn and a counter-clockwise turn, the const one with that
\* length, and the array is not the one from_str starts from
C19_Witness ==
    /\ pc = "const_parsed"
    /\ Len(alg) = MaxAlgLen
    /\ Cardinality(DOMAIN const_twists.twists) = MaxAlgLen
    /\ \A d \in {"Two", "Prime"} : \E i \in 1..Len(alg) : alg[i].dir = d
    /\ ~const_twists.panicked
    /\ \A k \in DOMAIN const_twists.twists : const_twists.twists[k] # const_default

\* C20: simplify is idempotent.  For every algorithm alg over the 24 twists,
\* direction None included, the twist list after a second call of simplify
\* is exactly the twist list after the first.
C20_SimplifyIdempotent ==
    pc = "simplified_again" => twists = simplified

\* simplify has run twice on an algorithm of MaxSimplifyLen twists that holds
\* a twist of direction None and that the first call shortened without
\* emptying it
C20_Witness ==
    /\ pc = "simplified_again"
    /\ Len(alg) = MaxSimplifyLen
    /\ \E i \in 1..Len(alg) : alg[i].dir = "None"
    /\ simplified # << >>
    /\ Len(simplified) < Len(alg)
    /\ twists = simplified

\* C21: simplify preserves the effect.  For every algorithm alg, once
\* simplify has run, applying the simplified twist list to the solved cube
\* gives the same cube, slot for slot, as applying alg to the solved cube.
C21_SimplifyPreservesEffect ==
    pc \in {"simplified", "simplified_again"} =>
        apply_algorithm(new_solved, simplified) = apply_algorithm(new_solved, alg)

\* simplify has merged the third twist of alg into the first across a twist
\* on the opposite face, and the shorter list has the effect of alg
C21_Witness ==
    /\ pc = "simplified"
    /\ Len(alg) = 3
    /\ is_opposite(alg[1].turn, alg[2].turn)
    /\ alg[3].turn = alg[1].turn
    /\ Len(simplified) = 2
    /\ simplified[1] # alg[1]
    /\ apply_algorithm(new_solved, simplified) = apply_algorithm(new_solved, alg)
    /\ apply_algorithm(new_solved, alg) # new_solved

\* the two faces are opposite
OppositeFaces(a, b) == {a, b} \in {{"U", "D"}, {"L", "R"}, {"F", "B"}}

\* the list acc with the twist at position k (from 1) turned further by t:
\* the direction becomes the sum, and the twist is dropped when the sum is
\* the identity direction
MergedAt(acc, k, t) ==
    LET quarters == (as_u8(acc[k].dir) + as_u8(t.dir)) % 4
    IN  IF quarters = 0
        THEN SubSeq(acc, 1, k - 1) \o SubSeq(acc, k + 1, Len(acc))
        ELSE [acc EXCEPT ![k] = Twist(acc[k].turn, from_u8(quarters))]

\* the merging rule in words: what the kept list acc becomes when the next
\* twist t arrives
MergeRule(acc, t) ==
    LET n == Len(acc)
    IN  CASE t.dir = "None" -> acc
          [] t.dir # "None" /\ n >= 1 /\ acc[n].turn = t.turn -> MergedAt(acc, n, t)
          [] t.dir # "None" /\ n >= 2 /\ acc[n].turn # t.turn /\ acc[n - 1].turn = t.turn
                /\ OppositeFaces(acc[n].turn, acc[n - 1].turn) -> MergedAt(acc, n - 1, t)
          [] OTHER -> Append(acc, t)

\* C22: the merging rule of simplify.  For every algorithm alg, the list
\* simplify leaves is the list it leaves for alg without its last twist,
\* changed by the rule for that last twist: merged into the last kept twist
\* on the same face, or into the second-last kept twist on the same face when
\* the last kept twist is on the opposite face, dropped when the summed
\* direction is the identity, and appended otherwise (never merged across a
\* face that is not opposite).  So R R R R becomes empty, R L R becomes R2 L,
\* L R R becomes L R2 and L F L is unchanged.
C22_SimplifyMergingRule ==
    pc \in {"simplified", "simplified_again"} =>
        /\ alg # << >> =>
               simplified = MergeRule(simplify(SubSeq(alg, 1, Len(alg) - 1)), alg[Len(alg)])
        /\ alg = << >> => simplified = << >>
        /\ alg = <<Twist("R", "One"), Twist("R", "One"), Twist("R", "One"), Twist("R", "One")>>
               => simplified = << >>
        /\ alg = <<Twist("R", "One"), Twist("L", "One"), Twist("R", "One")>>
               => simplified = <<Twist("R", "Two"), Twist("L", "One")>>
        /\ alg = <<Twist("L", "One"), Twist("R", "One"), Twist("R", "One")>>
               => simplified = <<Twist("L", "One"), Twist("R", "Two")>>
        /\ alg = <<Twist("L", "One"), Twist("F", "One"), Twist("L", "One")>>
               => simplified = alg

\* simplify has run on R L R and left R2 L
C22_Witness ==
    /\ pc = "simplified"
    /\ alg = <<Twist("R", "One"), Twist("L", "One"), Twist("R", "One")>>
    /\ simplified = <<Twist("R", "Two"), Twist("L", "One")>>

\* simplify has run on R R R R and left the empty list
C22_WitnessFourQuarters ==
    /\ pc = "simplified"
    /\ alg = <<Twist("R", "One"), Twist("R", "One"), Twist("R", "One"), Twist("R", "One")>>
    /\ simplified = << >>

\* the named algorithm a has been applied to the solved cube exactly k times
Applied(a, k) ==
    /\ pc = "apply"
    /\ alg = to_algorithm(a)
    /\ count = k * Len(alg)

\* C23: the superflip.  After the 20 twists of SUPERFLIP on the solved cube,
\* every corner is in its home slot with orientation 0, every edge is in its
\* home slot with flipped = true, and get_orientation is 2047 * 3^7.
C23_Superflip ==
    Applied(SUPERFLIP, 1) =>
        /\ \A i \in 0..7 : cube.corners[i] = Corner(i, 0)
        /\ \A i \in 0..11 : cube.edges[i] = Edge(i, TRUE)
        /\ get_orientation(cube) = 2047 * 3^7

\* the 20 twists of SUPERFLIP have been applied and the cube is not solved
C23_Witness ==
    /\ Applied(SUPERFLIP, 1)
    /\ Len(alg) = 20
    /\ ~is_solved(cube)
    /\ get_orientation(cube) = 2047 * 3^7

\* C24: the permutation algorithms are involutions.  After T_PERM has been
\* applied twice to the solved cube the cube is solved, and likewise after
\* J_PERM has been applied twice.
C24_PermsAreInvolutions ==
    (Applied(T_PERM, 2) \/ Applied(J_PERM, 2)) => is_solved(cube)

\* T_PERM has been applied twice (28 twists) and the cube is solved
C24_Witness ==
    /\ Applied(T_PERM, 2)
    /\ count = 28
    /\ is_solved(cube)

\* J_PERM has been applied once and the cube is not solved
C24_WitnessOnce ==
    /\ Applied(J_PERM, 1)
    /\ ~is_solved(cube)

\* the slot i of the corners holds the corner whose home is the slot j
CornerFrom(i, j) == cube.corners[i] = Corner(j, 0)

\* the slot i of the edges holds the edge whose home is the slot j
EdgeFrom(i, j) == cube.edges[i] = Edge(j, FALSE)

\* C25 as stated: after T_PERM once on the solved cube, the corners of the
\* slots UBL and UFL are exchanged with those of UBR and UFR, and all 12
\* edges and the four D-layer corners are in their solved slots with solved
\* orientation.
C25_TPermMovesFourCorners ==
    Applied(T_PERM, 1) =>
        /\ CornerFrom(CornerPos.UBL, CornerPos.UBR)
        /\ CornerFrom(CornerPos.UBR, CornerPos.UBL)
        /\ CornerFrom(CornerPos.UFL, CornerPos.UFR)
        /\ CornerFrom(CornerPos.UFR, CornerPos.UFL)
        /\ \A i \in 0..11 : EdgeFrom(i, i)
        /\ \A i \in {CornerPos.DFL, CornerPos.DFR, CornerPos.DBR, CornerPos.DBL} :
               CornerFrom(i, i)

\* C25, amended: after T_PERM once on the solved cube, the corners of the
\* slots UBR and UFR are exchanged with each other, the edges of the slots UR
\* and UL are exchanged with each other, and every other piece (the corners
\* of UBL and UFL, the four D-layer corners and the other ten edges) is in
\* its solved slot; every piece has its solved orientation.
C25_TPermEffect ==
    Applied(T_PERM, 1) =>
        /\ CornerFrom(CornerPos.UBR, CornerPos.UFR)
        /\ CornerFrom(CornerPos.UFR, CornerPos.UBR)
        /\ EdgeFrom(EdgePos.UR, EdgePos.UL)
        /\ EdgeFrom(EdgePos.UL, EdgePos.UR)
        /\ \A i \in (0..7) \ {CornerPos.UBR, CornerPos.UFR} : CornerFrom(i, i)
        /\ \A i \in (0..11) \ {EdgePos.UR, EdgePos.UL} : EdgeFrom(i, i)

\* the 14 twists of T_PERM have been applied once: the corners of UBL and
\* UFL are at home and the edge of UR is not
C25_Witness ==
    /\ Applied(T_PERM, 1)
    /\ count = 14
    /\ CornerFrom(CornerPos.UBL, CornerPos.UBL)
    /\ CornerFrom(CornerPos.UFL, CornerPos.UFL)
    /\ ~EdgeFrom(EdgePos.UR, EdgePos.UR)

\* C26: the empty solution on the solved cube.  When solver is called on the
\* solved cube (no scramble twist made), each phase starts with the bound 0
\* and its first call of dfs returns Found with the empty list; phase 1
\* returns the empty algorithm, so does phase 2, the algorithm solver returns
\* is empty, and the cube stays solved throughout.
C26_EmptySolutionOnSolved ==
    (count = 0 /\ pc # "scramble") =>
        /\ is_solved(start)
        /\ is_solved(cube)
        /\ pc \in {"phase1", "phase2"} =>
               /\ bound = 0
               /\ solution = << >>
               /\ NextIteration.returned
               /\ NextIteration.alg = << >>
               /\ NextIteration.cube = cube
        /\ pc \in {"phase2", "done"} => alg1 = << >>
        /\ alg = << >>

\* solver has returned for the solved cube with the empty algorithm
C26_Witness ==
    /\ count = 0
    /\ pc = "done"
    /\ is_solved(start)
    /\ is_solved(cube)
    /\ alg1 = << >>
    /\ alg = << >>

C27_WitnessBlocked ==
    \E t, u \in Threads :
        /\ threads[t].pc = "compute" /\ threads[t].table = "orientation"
        /\ threads[u].pc = "get_or_init" /\ threads[u].table = "orientation"
        /\ once["orientation"].state = "running"

\* the face characters U, D, F, B, L, R of a text, in order
face_chars(str) == SelectSeq(str, LAMBDA c : turn_from_char(c) # "NoTurn")

\* the N of the ConstAlgorithm::<N> that from_str was called for
ConstN == Cardinality(DOMAIN const_twists.twists)

\* C28: ConstAlgorithm::<N>::from_str panics whenever the number of face
\* characters of its input differs from N, fewer or more, and otherwise
\* returns N twists, the k-th of them on the face of the k-th face
\* character and none left at the default of the array.
C28_ConstFromStrLengthMismatchPanics ==
    pc = "const_parsed" =>
        /\ const_twists.panicked = (Len(face_chars(text)) # ConstN)
        /\ ~const_twists.panicked =>
               /\ DOMAIN const_twists.twists = 0..(ConstN - 1)
               /\ Len(to_algorithm(const_twists)) = ConstN
               /\ \A k \in 1..ConstN :
                      /\ const_twists.twists[k - 1].turn = turn_from_char(face_chars(text)[k])
                      /\ const_twists.twists[k - 1].dir # "None"

\* from_str::<3> has panicked on a text with two face characters, fewer
\* than N: no index left the array and assert!(len == N) failed
C28_Witness ==
    /\ pc = "const_parsed"
    /\ Len(face_chars(text)) = 2
    /\ ConstN = 3
    /\ const_twists.panicked

\* from_str::<N> has panicked on a text with more face characters than N
C28_WitnessMore ==
    /\ pc = "const_parsed"
    /\ Len(face_chars(text)) = 3
    /\ ConstN = 2
    /\ const_twists.panicked

\* from_str::<N> has returned N twists for a text of N face characters
C28_WitnessExact ==
    /\ pc = "const_parsed"
    /\ Len(face_chars(text)) = 3
    /\ ConstN = 3
    /\ ~const_twists.panicked

(***************************************************************************)
(* Further properties of the engine, over every cube CubeSpec reaches.     *)
(***************************************************************************)
\* C6: twist involution.  For the cube reached and every twist t (6 faces, 4
\* directions), t followed by t.inverse() leaves every edge slot and every
\* corner slot (identity and orientation) as it was.
C6_TwistInvolution ==
    \A t \in AnyTwist :
        LET back == twist(twist(cube, t), inverse(t))
        IN  /\ \A i \in 0..11 : back.edges[i] = cube.edges[i]
            /\ \A i \in 0..7 : back.corners[i] = cube.corners[i]

\* a scrambled cube with flipped edges and twisted corners, which a quarter
\* turn changes and its inverse restores
C6_Witness ==
    /\ count = MaxTwists
    /\ \E i \in 0..11 : cube.edges[i].flipped
    /\ \E i \in 0..7 : cube.corners[i].orientation # 0
    /\ \E t \in AnyTwist :
           /\ t.dir = "Prime"
           /\ twist(cube, t) # cube
           /\ twist(twist(cube, t), inverse(t)) = cube

\* C7: permutation invariant.  The 12 edge slots hold each of the 12 edge
\* identities exactly once and the 8 corner slots each of the 8 corner
\* identities exactly once.
C7_Permutation ==
    /\ \A id \in 0..11 : Cardinality({i \in 0..11 : cube.edges[i].id = id}) = 1
    /\ \A id \in 0..7 : Cardinality({i \in 0..7 : cube.corners[i].id = id}) = 1

\* after the twists, no U-layer or D-layer edge or corner checked is at home
C7_Witness ==
    /\ count = MaxTwists
    /\ cube.edges[EdgePos.UB].id # EdgeId.WB
    /\ cube.edges[EdgePos.DF].id # EdgeId.YG
    /\ cube.corners[CornerPos.UBL].id # CornerId.WBO
    /\ cube.corners[CornerPos.DFR].id # CornerId.YGR

\* C8: corner-twist invariant.  The sum of the 8 corner orientations is a
\* multiple of 3.
C8_CornerTwist == OrientationSum(cube.corners, 0) % 3 = 0

\* corners carry orientation 1 and orientation 2 and the sum is not 0
C8_Witness ==
    /\ \E i \in 0..7 : cube.corners[i].orientation = 1
    /\ \E i \in 0..7 : cube.corners[i].orientation = 2
    /\ OrientationSum(cube.corners, 0) >= 9

\* C9: edge-flip invariant.  The number of flipped edges is even.
C9_EdgeFlip == FlippedCount(cube.edges) % 2 = 0

\* two F/B quarter turns with overlapping effect: 6 edges are flipped
C9_Witness == FlippedCount(cube.edges) = 6

\* C10: parity invariant.  The permutation of edge identities over the edge
\* slots and that of corner identities over the corner slots are both even
\* or both odd.
C10_Parity == Inversions(cube.edges, 11) % 2 = Inversions(cube.corners, 7) % 2

\* an odd state (an odd number of quarter turns) reached after a half turn
C10_Witness ==
    /\ Inversions(cube.edges, 11) % 2 = 1
    /\ Inversions(cube.corners, 7) % 2 = 1
    /\ count >= 2

\* C30: twists of opposite faces commute.  For every cube reached and every
\* two twists t1, t2 of opposite faces (U/D, L/R, F/B), of any directions,
\* t1 then t2 gives the same cube as t2 then t1.
C30_OppositeTwistsCommute ==
    \A t1, t2 \in AnyTwist :
        is_opposite(t1.turn, t2.turn) =>
            twist(twist(cube, t1), t2) = twist(twist(cube, t2), t1)

\* a scrambled cube on which a twist of U and a twist of D, applied in
\* either order, give one cube that differs from the cube, from the cube
\* after the twist of U alone and from the cube after the twist of D alone
C30_Witness ==
    /\ count = MaxTwists
    /\ ~is_solved(cube)
    /\ \E t1, t2 \in AnyTwist :
           /\ t1.turn = "U" /\ t2.turn = "D"
           /\ is_opposite(t1.turn, t2.turn)
           /\ \E c12 \in {twist(twist(cube, t1), t2)} :
                  /\ c12 = twist(twist(cube, t2), t1)
                  /\ c12 \notin {cube, twist(cube, t1), twist(cube, t2)}

\* the sequence alg passes the filter of allowed_moves_from_moveset at every
\* consecutive pair
AllowedSequence(a) == \A k \in 1..(Len(a) - 1) : allowed(a[k + 1], a[k].turn)

\* the set the sequence alg is taken from
PathMoveset == IF pc = "g1_moves" THEN G1_MOVESET ELSE ALL_MOVES

\* C29: the filter of allowed_moves_from_moveset loses no reachability.
\* For the 18 twists of ALL_MOVES and for the 10 moves of G1_MOVESET, the
\* cube reached from start by any sequence of n moves of the set is also
\* reached from start by a sequence of at most n moves of the set in which
\* each move passes the filter for the face of the move before it.
C29_AllowedMovesLoseNoReachability ==
    /\ cube = apply_algorithm(start, alg)
    /\ allowed_path_reaches(start, cube, Len(alg), "NoTurn", PathMoveset)

\* a cube reached by a sequence of MaxPathLen twists of ALL_MOVES that does
\* not pass the filter: D and then U; only sequences that pass it and are
\* no longer reach the same cube
C29_Witness ==
    /\ pc = "all_moves"
    /\ Len(alg) = MaxPathLen
    /\ ~AllowedSequence(alg)
    /\ alg[1].turn = "D" /\ alg[2].turn = "U"
    /\ allowed_path_reaches(start, cube, Len(alg), "NoTurn", ALL_MOVES)
    /\ ~allowed_path_reaches(start, cube, Len(alg) - 1, "NoTurn", ALL_MOVES)

\* the same for G1_MOVESET, with a sequence that repeats a face: a strictly
\* shorter sequence that passes the filter reaches the cube
C29_WitnessG1 ==
    /\ pc = "g1_moves"
    /\ Len(alg) = MaxPathLen
    /\ alg[1].turn = alg[2].turn
    /\ ~is_solved(cube)
    /\ allowed_path_reaches(start, cube, Len(alg) - 1, "NoTurn", G1_MOVESET)

(***************************************************************************)
(* Properties of the search of dfs and group_solver, over every run of     *)
(* Spec, and of the parser, the orientation table and the orientation      *)
(* coordinate.                                                             *)
(***************************************************************************)
\* the GroupInfo of the phase the solver is in
PhaseInfo == IF pc = "phase1" THEN PHASE1 ELSE PHASE2

\* the values f = g + h of the nodes at which dfs, called for the cube c at
\* depth g with the bound bnd, returns at the test f > bound
RECURSIVE cut_values(_, _, _, _, _)
cut_values(c, g, bnd, prev, g_info) ==
    LET f == g + heuristic(g_info, c)
    IN  IF f > bnd THEN {f}
        ELSE IF check(g_info, c) THEN {}
        ELSE UNION { cut_values(twist(c, m), g + 1, bnd, m.turn, g_info) :
                     m \in { g_info.moveset[i] :
                             i \in { j \in 1..Len(g_info.moveset) :
                                     allowed(g_info.moveset[j], prev) } } }

\* the least element of a set of numbers
Least(S) == CHOOSE x \in S : \A y \in S : x <= y

\* a step of the solver from a state in which the top-level dfs call of the
\* iteration returns Excess(v): the bound after it is v, above the bound of
\* the iteration and the least f among the nodes that cut off, and the cube
\* is the cube of the iteration; the first bound of each phase is the
\* heuristic of the cube the phase starts from
BoundStep ==
    /\ (pc = "scramble" /\ pc' = "phase1") => bound' = heuristic(PHASE1, cube')
    /\ (pc = "phase1" /\ pc' = "phase2") => bound' = heuristic(PHASE2, cube')
    /\ (pc \in {"phase1", "phase2"} /\ pc' = pc) =>
           /\ ~NextIteration.returned
           /\ bound' = NextIteration.bound
           /\ bound' > bound
           /\ bound' < MAX
           /\ bound' = Least(cut_values(cube, 0, bound, "NoTurn", PhaseInfo))
           /\ cube' = cube

\* C31: IDA* bound monotonicity.  Whenever the top-level dfs call of an
\* iteration returns Excess(v), v is greater than the bound of the iteration
\* and is the least f = g + h over the nodes at which the iteration cut off;
\* the bounds of group_solver start at the heuristic of its cube and grow
\* strictly.
C31_BoundsStrictlyIncrease == [][BoundStep]_vars

\* group_solver is in phase 1 with a bound above the heuristic of its cube:
\* its first iteration, with the heuristic as bound, has returned Excess(v)
\* from nodes cut off at more than one value of f, and v, the least of
\* them, is the bound now
C31_Witness ==
    /\ pc = "phase1"
    /\ count = MaxScramble
    /\ bound > heuristic(PHASE1, cube)
    /\ bound < U8_MAX
    /\ \E cuts \in {cut_values(cube, 0, heuristic(PHASE1, cube), "NoTurn", PHASE1)} :
           /\ Cardinality(cuts) > 1
           /\ bound = Least(cuts)

\* the dfs call the loop of the top-level call makes for the move m
ChildCall(m) == dfs(twist(cube, m), 1, bound, m.turn, PhaseInfo, solution)

\* C32: dfs undo discipline.  Every dfs call that returns Excess leaves the
\* cube, all edge and corner slots, as it was on entry and leaves the
\* solution buffer unchanged: the top-level call of the iteration, so that
\* the next iteration starts from the same cube, and each call its loop
\* makes for a move of the moveset.
C32_DfsUndoDiscipline ==
    (pc \in {"phase1", "phase2"} /\ bound <= MaxBound) =>
        /\ ~NextIteration.returned =>
               /\ NextIteration.cube = cube
               /\ NextIteration.solution = solution
        /\ \A i \in 1..Len(PhaseInfo.moveset) :
               \E r \in {ChildCall(PhaseInfo.moveset[i])} :
                   ~r.found => /\ r.cube = twist(cube, PhaseInfo.moveset[i])
                               /\ r.solution = solution

\* in an iteration of phase 1 on a scrambled cube the call for a first move
\* m passes the test f > bound, is not at the goal, tries its moves and
\* returns Excess with the cube as it was on its entry
C32_Witness ==
    /\ pc = "phase1"
    /\ count = MaxScramble
    /\ bound <= MaxBound
    /\ \E i \in 1..Len(ALL_MOVES) :
       \E r \in {ChildCall(ALL_MOVES[i])} :
           /\ 1 + heuristic(PHASE1, twist(cube, ALL_MOVES[i])) <= bound
           /\ ~is_g1(twist(cube, ALL_MOVES[i]))
           /\ ~r.found
           /\ ~r.unfilled
           /\ r.cube = twist(cube, ALL_MOVES[i])
           /\ r.v > bound

\* C33: in-place goal state.  When group_solver returns, the cube it was
\* given is the cube of its entry after the twists of the returned
\* algorithm, and satisfies the check of the phase; phase 2 runs on the
\* cube phase 1 left, a cube of G1, and the cube passed to solver is solved
\* when solver returns.
C33_InPlaceGoalState ==
    /\ (pc \in {"phase1", "phase2"} /\ bound <= MaxBound /\ NextIteration.returned) =>
           /\ NextIteration.cube = apply_algorithm(cube, NextIteration.alg)
           /\ check(PhaseInfo, NextIteration.cube)
    /\ pc = "phase2" =>
           /\ cube = apply_algorithm(start, alg1)
           /\ is_g1(cube)
    /\ pc = "done" =>
           /\ cube = apply_algorithm(apply_algorithm(start, alg1), SubSeq(alg, Len(alg1) + 1, Len(alg)))
           /\ cube = apply_algorithm(start, alg)
           /\ is_g1(apply_algorithm(start, alg1))
           /\ is_solved(cube)

\* solver has returned for a scrambled cube: phase 1 and phase 2 each
\* returned twists, and the cube is solved
C33_Witness ==
    /\ pc = "done"
    /\ count = MaxScramble
    /\ ~is_g1(start)
    /\ Len(alg1) >= 1
    /\ Len(alg) > Len(alg1)
    /\ ~is_solved(apply_algorithm(start, alg1))
    /\ is_solved(cube)

\* the characters that name a face, and those that name a direction for the
\* parser of Algorithm
FACE_CHARS == {CH.U, CH.D, CH.F, CH.B, CH.L, CH.R}

DIR_CHARS == {CH.zero, CH.one, CH.two, CH.three, CH.quote}

\* the direction a direction character names
DirOf(c) ==
    CASE c = CH.zero -> "None"
      [] c = CH.one -> "One"
      [] c = CH.two -> "Two"
      [] c \in {CH.three, CH.quote} -> "Prime"

\* the face a face character names
FaceOf(c) ==
    CASE c = CH.U -> "U" [] c = CH.D -> "D" [] c = CH.F -> "F"
      [] c = CH.B -> "B" [] c = CH.L -> "L" [] c = CH.R -> "R"

\* the positions of the face characters of a text, in order
FacePositions(str) ==
    SelectSeq([i \in 1..Len(str) |-> i], LAMBDA i : str[i] \in FACE_CHARS)

\* the twist the text str gives for its k-th face character: the direction
\* is that of the last direction character between this face character and
\* the next one, or the end of the text, and One when there is none
ExpectedTwist(str, k) ==
    LET ps == FacePositions(str)
        from == ps[k]
        to == IF k < Len(ps) THEN ps[k + 1] ELSE Len(str) + 1
        ds == {i \in (from + 1)..(to - 1) : str[i] \in DIR_CHARS}
    IN  Twist(FaceOf(str[from]),
              IF ds = {} THEN "One"
              ELSE DirOf(str[CHOOSE i \in ds : \A j \in ds : j <= i]))

\* C34: parse semantics.  For every text, Algorithm::from_str returns one
\* twist for each face character U, D, F, B, L, R, in order of appearance;
\* its direction is One unless direction characters follow it before the
\* next face character, and then the last of them ('0', '1', '2', '3' or
\* the apostrophe) gives the direction; whitespace and other characters
\* are skipped and a direction character before the first face character
\* has no effect; "R  U'    F2" gives R, U', F2.
C34_ParseSemantics ==
    pc = "parsed" =>
        /\ Len(twists) = Len(FacePositions(text))
        /\ \A k \in 1..Len(twists) : twists[k] = ExpectedTwist(text, k)
        /\ text = EXAMPLE_STR =>
               twists = <<Twist("R", "One"), Twist("U", "Prime"), Twist("F", "Two")>>

\* a parsed text of MaxTextLen characters: a direction character before the
\* first face character, a face character and two direction characters
\* after it, of which the last one gave the direction
C34_Witness ==
    /\ pc = "parsed"
    /\ Len(text) = MaxTextLen
    /\ text[1] \in DIR_CHARS
    /\ text[2] \in FACE_CHARS
    /\ text[3] = CH.quote
    /\ text[4] = CH.two
    /\ twists = <<Twist(FaceOf(text[2]), "Two")>>

\* the text "R  U'    F2" has been parsed
C34_WitnessExample ==
    /\ pc = "parsed"
    /\ text = EXAMPLE_STR
    /\ Len(twists) = 3

\* a parsed text with whitespace and a character the parser does not know
\* between a face character and its direction character
C34_WitnessSkipped ==
    /\ pc = "parsed"
    /\ Len(text) = 4
    /\ text[1] = CH.U /\ text[2] = CH.tab /\ text[3] = 120 /\ text[4] = CH.three
    /\ twists = <<Twist("U", "Prime")>>

\* the cubes that sequences of exactly n twists of ALL_MOVES lead to from
\* the solved cube
RECURSIVE cubes_after(_)
cubes_after(n) ==
    IF n = 0 THEN {new_solved}
    ELSE {twist(c, ALL_MOVES[i]) : c \in cubes_after(n - 1), i \in 1..Len(ALL_MOVES)}

\* for each length n up to MaxOrientDepth, the values of get_orientation of
\* the cubes that sequences of n twists lead to from the solved cube
ORIENTATIONS_AFTER ==
    [n \in 0..MaxOrientDepth |-> {get_orientation(c) : c \in cubes_after(n)}]

\* C35: the orientation table holds breadth-first distances.  The entry at
\* the coordinate of the solved cube is 0, and the entry at an index k is
\* the length of the shortest sequence of twists of ALL_MOVES from the
\* solved cube to a cube whose get_orientation is k: some sequence of that
\* length leads to such a cube and no shorter one does.  Stated for the
\* index of every cube reached and the lengths up to MaxOrientDepth.
C35_TableHoldsBfsDistances ==
    /\ table_get(CORNER_ORIENTATION_TABLE, get_orientation(new_solved)) = 0
    /\ \A k \in {get_orientation(cube)} :
       \A t \in {table_get(CORNER_ORIENTATION_TABLE, k)} :
           /\ (\E n \in 0..MaxOrientDepth : k \in ORIENTATIONS_AFTER[n]) => t <= MaxOrientDepth
           /\ t <= MaxOrientDepth =>
                  /\ k \in ORIENTATIONS_AFTER[t]
                  /\ \A n \in 0..(t - 1) : k \notin ORIENTATIONS_AFTER[n]

\* a cube whose index has the entry 3: sequences of three twists lead to
\* cubes of this index, among them cubes other than this one, and no
\* sequence of two twists does
C35_Witness ==
    /\ count = MaxTwists
    /\ pattern_heuristic(cube) = 3
    /\ get_orientation(cube) \in ORIENTATIONS_AFTER[3]
    /\ get_orientation(cube) \notin ORIENTATIONS_AFTER[2]
    /\ \E c \in cubes_after(3) : c # cube /\ get_orientation(c) = get_orientation(cube)

\* get_orientation of a cube after each twist
orientation_after(c) ==
    [t \in AnyTwist |-> get_orientation(twist(c, t))]

\* the cubes that sequences of up to MaxPairDepth twists of ALL_MOVES lead to
\* from the solved cube, each with its get_orientation and its
\* get_orientation after each twist
REACHED_WITH_ORIENTATION ==
    {<<c, get_orientation(c), orientation_after(c)>>
         : c \in UNION {cubes_after(n) : n \in 0..MaxPairDepth}}

\* the corner orientations and the flipped bits of two cubes agree slot by
\* slot
SameOrientations(a, b) ==
    /\ \A i \in 0..7 : a.corners[i].orientation = b.corners[i].orientation
    /\ \A i \in 0..11 : a.edges[i].flipped = b.edges[i].flipped

\* the reached cubes other than the cube of the state that have its
\* get_orientation
SameCoordinate ==
    UNION { {q \in REACHED_WITH_ORIENTATION : q[2] = k /\ q[1] # cube}
            : k \in {get_orientation(cube)} }

\* C36: the orientation coordinate is a well-defined quotient.  Two reached
\* cubes with equal get_orientation have equal get_orientation after any
\* twist, and they have equal get_orientation only if their 8 corner
\* orientations and 12 flipped bits agree slot by slot.
C36_OrientationIsQuotient ==
    \A after \in {orientation_after(cube)} :
        \A other \in SameCoordinate :
            /\ SameOrientations(cube, other[1])
            /\ \A t \in AnyTwist : after[t] = other[3][t]

\* a cube after MaxTwists twists with corners twisted and edges flipped,
\* and another reached cube with the same get_orientation and other pieces
\* in its slots
C36_Witness ==
    /\ count = MaxTwists
    /\ \E i \in 0..7 : cube.corners[i].orientation # 0
    /\ \E i \in 0..11 : cube.edges[i].flipped
    /\ \E other \in SameCoordinate :
           /\ \E i \in 0..7 : other[1].corners[i].id # cube.corners[i].id
           /\ other[3][Twist("F", "One")] = get_orientation(twist(cube, Twist("F", "One")))
           /\ other[3][Twist("F", "One")] # get_orientation(cube)

\* the calls of dfs of phase 1 on the cube of the state at every depth g
\* within every bound up to MaxBound, after any previous turn
GoalCalls ==
    {dfs(cube, gb[1], gb[2], prev, PHASE1, <<>>)
         : gb \in {x \in (0..MaxBound) \X (0..MaxBound) : x[1] <= x[2]},
           prev \in Turn \cup {"NoTurn"}}

\* C37: goal and heuristic agree at the goal of phase 1.  On every reached
\* cube with is_g1, the corner term, the edge term and the orientation-table
\* entry, read at coordinate 0, are 0, g1_heuristic returns 0, and dfs called
\* on the cube at a depth g within the bound is not cut by f > bound: it
\* returns Found and leaves the cube as it is.
C37_HeuristicZeroAtG1 ==
    is_g1(cube) =>
        /\ corner_orientation_heuristic(cube) = 0
        /\ edge_orientation_heuristic(cube) = 0
        /\ get_orientation(cube) = 0
        /\ 0 \in DOMAIN CORNER_ORIENTATION_TABLE
        /\ pattern_heuristic(cube) = 0
        /\ g1_heuristic(cube) = 0
        /\ \A r \in GoalCalls : r.found /\ r.cube = cube /\ ~r.unfilled

\* a cube with is_g1 after MaxTwists twists in which the slot FR holds
\* another edge of the middle layer and the slot UF another edge of the
\* other layers, and the call of dfs on it with g = bound returns Found
C37_Witness ==
    /\ count = MaxTwists
    /\ is_g1(cube)
    /\ cube.edges[EdgePos.FR].id # SOLVED_EDGES[EdgePos.FR].id
    /\ cube.edges[EdgePos.UF].id # SOLVED_EDGES[EdgePos.UF].id
    /\ g1_heuristic(cube) = 0
    /\ dfs(cube, MaxBound, MaxBound, "NoTurn", PHASE1, <<>>).found

====
